---- MODULE Spec2Model ----
(***************************************************************************)
(* State-machine model of the session/world server of                      *)
(* minecraft-classic-threejs: GameServer + MessageHandler                  *)
(* (src/unnamed/part_006), WorldManager + coordinate codec                 *)
(* (src/unnamed/part_003), the store adapter (src/unnamed/part_004) and    *)
(* the baseline generator (src/server/src/world/generator.ts).             *)
(*                                                                         *)
(* Node.js runs one handler at a time; a handler gives up control only at  *)
(* an await on real I/O (a store call).  Every action below is therefore   *)
(* one run-to-suspension slice of a handler: from the event that starts    *)
(* or resumes it up to its next store call or its end.  An await on a      *)
(* promise that is already settled (getSection on a cached section, the    *)
(* simple-token branch of verifyJWT) does not let another event in, so it  *)
(* does not end a slice.  A store call takes effect on the store at the    *)
(* slice that receives its answer.                                         *)
(***************************************************************************)
EXTENDS Integers, Sequences, FiniteSets, TLC

(* ---------------------------------------------------------------- bounds *)
\* WebSocket connections that may ever be accepted.
NumConns == 3
\* Distinct user ids presented in credentials.
NumUsers == 3
\* Handlers of one connection in flight at the same time.
MaxInflight == 2
\* MAX_PLAYERS_PER_WORLD is 8 in constants.ts:24; the model scales it down
\* so that a full world is reached with NumConns connections.
MAX_PLAYERS_PER_WORLD == 2
\* MAX_SECTIONS_MOBILE is 128 in constants.ts:51; the model scales it down
\* so that the subscription cap is reached with the sections of the model.
MAX_SECTIONS_MOBILE == 2
\* Process restarts (crash + new construction) in the reload specification.
MaxRestarts == 1
\* SUBSCRIBE frames handled per participant.
MaxSubscribes == 2
\* Edit requests per participant that miss the response cache.
MaxEdits == 2
\* Last reading of the clock, in ms.
MaxClock == 5000
MaxAttempts == 6
MaxJwksClock == 3600000
MaxOrderEdits == 3
MaxConnectClock == 120000

(* ----------------------------------------------------- program constants *)
PROTOCOL_VERSION == 1
HELLO_TIMEOUT_MS == 5000
JWKS_CACHE_TTL_MS == 3600000
CONNECTION_RATE_LIMIT == 3
windowMs == 60000
TICK_RATE_MS == 50
REGISTRY_VERSION == 1
GENERATOR_VERSION == 1
SECTION_SIZE_Y == 16
SECTIONS_PER_CHUNK == 8
TOTAL_CHUNKS_X == 256
TOTAL_CHUNKS_Z == 256
WORLD_SIZE_X == 4096
WORLD_SIZE_Y == 128
WORLD_SIZE_Z == 4096
MAX_EDITS_PER_SECOND == 20
MAX_SUBSCRIBE_PER_SECOND == 100
SECTIONS_PER_SECOND_MOBILE == 4
REQUEST_ID_TTL_MS == 60000
BLOCK_AIR == 0
BLOCK_STONE == 1
BLOCK_GRASS == 2
STONE_LAYERS == 4
GRASS_LAYER == 4
\* MAX_REACH_DISTANCE (5.0) and PLAYER_EYE_HEIGHT (1.6) in tenths of a block.
MAX_REACH_DISTANCE_T == 50
PLAYER_EYE_HEIGHT_T == 16

(* ------------------------------------------------------------ input sets *)
Conns == 1..NumConns
Users == 1..NumUsers
IPs == {"10.0.0.1", "10.0.0.2"}
DefaultWorld == "default-world"
WorldIds == {DefaultWorld, "w1"}
\* Section ids "cx:cz:sy" as triples <<cx, cz, sy>>.
Sections == {<<32, 32, 5>>, <<32, 32, 4>>, <<32, 32, 3>>}
\* Voxels that edit requests address: both within reach of the spawn point
\* and outside the spawning player's own box.
Targets == {<<514, 80, 512>>, <<514, 79, 512>>}
RequestIds == {"r1", "r2"}
\* Request ids of a burst: two more than MAX_EDITS_PER_SECOND, in the order
\* in which the burst uses them.
BurstRequestIds ==
  <<"q01", "q02", "q03", "q04", "q05", "q06", "q07", "q08", "q09",
    "q10", "q11", "q12", "q13", "q14", "q15", "q16", "q17", "q18",
    "q19", "q20", "q21", "q22">>
\* The keys that a world's response cache may hold.
CacheKeys == RequestIds \cup {BurstRequestIds[k] : k \in 1..Len(BurstRequestIds)}
\* Block ids carried by edit requests.
BlockIds == {BLOCK_AIR, BLOCK_STONE}
\* Block ids of the persistence runs; 300 needs both bytes of a uint16.
WideBlockIds == {BLOCK_AIR, 300}

VARIABLES
  sock,              \* ws.readyState per connection: none/open/closing/closed
  connections,       \* GameServer.connections: 0 = no key, -1 = null, c = Player
  players,           \* the Player object created over each connection
  tasks,             \* handlers in flight per connection, in arrival order
  worldOrder,        \* keys of WorldManager.worlds in insertion order
  activePlayers,     \* World.activePlayers: user id -> Player object (0 absent)
  loadedSections,    \* World.loadedSections
  sectionSubscribers,\* World.sectionSubscribers (no key = empty set)
  pendingEdits,      \* World.pendingEdits: request id -> cached response
  flushes,           \* flushDirtySections invocations suspended in saveSections
  persistenceTimer,  \* WorldManager.persistenceTimer is set
  stopPc,            \* progress of GameServer.stop
  storeSections,     \* table world_sections
  storeSessions,     \* table world_sessions: status of this instance's rows
  now,               \* Date.now()
  restarts,          \* process restarts so far
  sent,              \* frames handed to ws.send in the last step
  last,              \* what the last step did
  view,              \* per connection and section: client copy built from frames
  lastWritten,       \* per world and section: contents last upserted
  received,          \* per world: request ids of the edit requests received
  pendingConnections,\* MessageHandler.pendingConnections: due time of the HELLO timer
  closeCode,         \* code of the first ws.close() the server made (0: none)
  storeWorlds,       \* tables worlds, world_bans, world_members
  ipConnections,     \* GameServer.ipConnections: per IP the recorded times
  verified,          \* every verifyClient call so far: IP, time, outcome
  jwksCache,         \* auth module's jwksCache: key set held, time fetched
  sectionKeys        \* keys of w1's section maps, as the strings received

vars == <<sock, connections, players, tasks, worldOrder, activePlayers,
          loadedSections, sectionSubscribers, pendingEdits, flushes,
          persistenceTimer, stopPc, storeSections, storeSessions, now,
          restarts, sent, last, view, lastWritten, received,
          pendingConnections, closeCode, storeWorlds, ipConnections,
          verified, jwksCache, sectionKeys>>

(* --------------------------------------------------- coordinate codec *)
Min(a, b) == IF a < b THEN a ELSE b

isValidWorldCoord(x, y, z) ==
  /\ x >= 0 /\ x < WORLD_SIZE_X
  /\ y >= 0 /\ y < WORLD_SIZE_Y
  /\ z >= 0 /\ z < WORLD_SIZE_Z

isValidSectionCoord(cx, cz, sy) ==
  /\ cx >= 0 /\ cx < TOTAL_CHUNKS_X
  /\ cz >= 0 /\ cz < TOTAL_CHUNKS_Z
  /\ sy >= 0 /\ sy < SECTIONS_PER_CHUNK

\* Math.floor(v / 16) per axis; \div is floor division.
worldToSectionId(x, y, z) == <<x \div 16, z \div 16, y \div 16>>

localToIndex(lx, ly, lz) == (ly * 256) + (lz * 16) + lx

worldToBlockIndex(x, y, z) == localToIndex(x % 16, y % 16, z % 16)

\* Local indices the bounded edit inputs can address; every other cell of a
\* section keeps its baseline value and is left out of the block arrays.
Cells == {worldToBlockIndex(t[1], t[2], t[3]) : t \in Targets}

\* Squared distance in tenths of a block; dist > r iff dist^2 > r^2.
distanceSq(x1, y1, z1, x2, y2, z2) ==
  (x2 - x1) * (x2 - x1) + (y2 - y1) * (y2 - y1) + (z2 - z1) * (z2 - z1)

(* ----------------------------------------------------------- generator *)
\* A stored block is an element of a Uint16Array.
ToUint16(v) == v % 65536

BaselineBlock(sy, idx) ==
  LET worldY == sy * SECTION_SIZE_Y + (idx \div 256)
  IN  IF worldY < STONE_LAYERS THEN BLOCK_STONE
      ELSE IF worldY = GRASS_LAYER THEN BLOCK_GRASS
      ELSE BLOCK_AIR

NoSection ==
  [loaded |-> FALSE, version |-> 0, blocks |-> [i \in Cells |-> 0],
   dirty |-> FALSE, fromDatabase |-> FALSE]

generateBaselineSection(sid) ==
  [loaded |-> TRUE, version |-> 0,
   blocks |-> [i \in Cells |-> BaselineBlock(sid[3], i)],
   dirty |-> FALSE, fromDatabase |-> FALSE]

getSpawnPosition == <<512, 80, 512>>

\* The cells in index order, for the byte encoding.
RECURSIVE SortedCells(_)
SortedCells(S) ==
  IF S = {} THEN << >>
  ELSE LET m == CHOOSE a \in S : \A b \in S : a <= b
       IN  <<m>> \o SortedCells(S \ {m})

CellSeq == SortedCells(Cells)

\* Buffer.from(blocks.buffer): two bytes per block, low byte first.
BlocksToBytes(blocks) ==
  [k \in 1..(2 * Len(CellSeq)) |->
     LET v == blocks[CellSeq[(k + 1) \div 2]]
     IN  IF k % 2 = 1 THEN v % 256 ELSE v \div 256]

\* new Uint16Array(buffer) on a little-endian host: pairs of bytes back to
\* blocks, low byte first.
Uint16ArrayOf(bytes) ==
  [i \in Cells |->
     LET k == CHOOSE j \in 1..Len(CellSeq) : CellSeq[j] = i
     IN  bytes[2 * k - 1] + 256 * bytes[2 * k]]

\* The same view with the byte order swapped (big-endian reading).
decodeHighByteFirst(bytes) ==
  [i \in Cells |->
     LET k == CHOOSE j \in 1..Len(CellSeq) : CellSeq[j] = i
     IN  256 * bytes[2 * k - 1] + bytes[2 * k]]

decodeSectionBlocksFromDb(bytes) == Uint16ArrayOf(bytes)

\* The base64 text of a frame is kept as the byte sequence it carries.
encodeSectionBlocks(blocks) == BlocksToBytes(blocks)

decodeSectionBlocks(base64) == Uint16ArrayOf(base64)

\* SECTION_BYTES for the cells the model keeps (8192 for all 4096 cells).
SectionBytes == 2 * Cardinality(Cells)

(* ------------------------------------------------------------- records *)
NoPlayer ==
  [exists |-> FALSE, playerId |-> 0, worldId |-> DefaultWorld,
   position |-> getSpawnPosition, subscribedSections |-> {},
   pendingSections |-> << >>, editCount |-> 0, lastEditReset |-> 0,
   subscribeCount |-> 0, lastSubscribeReset |-> 0]

NoFrame == [type |-> "NONE"]

NoResponse == [cached |-> FALSE, response |-> NoFrame, timestamp |-> 0]

NoRow == [present |-> FALSE, version |-> 0, blocks |-> << >>]

NoContents == [written |-> FALSE, version |-> 0, blocks |-> [i \in Cells |-> 0]]

NoView == [has |-> FALSE, version |-> 0, blocks |-> [i \in Cells |-> 0]]

\* A world_sessions row: its status and the instance that registered it (the
\* instance id is a fresh uuid per construction: the restart count here).
NoSession == [status |-> "none", instance |-> 0]

NoFlush == [active |-> FALSE, world |-> DefaultWorld, idx |-> 0, batch |-> {},
            records |-> [s \in Sections |-> NoRow],
            contents |-> [s \in Sections |-> NoContents]]

\* A world_bans row of one user: absent, permanent (expires_at null) or with
\* an expiry time.
NoBan == [present |-> FALSE, permanent |-> FALSE, expires_at |-> 0]

\* A worlds row with the world_bans and world_members rows of the world.
NoWorld ==
  [present |-> FALSE, is_public |-> FALSE, owner_id |-> 0,
   bans |-> [u \in Users |-> NoBan], members |-> {}]

\* A public world without bans or members, owned by a user that never
\* connects (owner_id 0).
OpenWorld == [NoWorld EXCEPT !.present = TRUE, !.is_public = TRUE]

\* The store of the runs that draw the answers of the access checks freely:
\* default-world has no row.
OpenStore == [w \in WorldIds |-> IF w = DefaultWorld THEN NoWorld ELSE OpenWorld]

\* Who may run flushDirtySections: 0 the persistence timer, c in Conns the
\* close handler of connection c (through removePlayer), NumConns + 1 stop.
TimerFlush == 0
StopFlush == NumConns + 1
FlushOwners == 0..(NumConns + 1)

\* A step's label: what was done, for which connection, world and section,
\* and whether it handled an edit request whose id had been received before.
Idle == [op |-> "none", c |-> 0, w |-> DefaultWorld, sid |-> <<0, 0, 0>>,
         dup |-> FALSE]

\* The steps a client can observe: they may send frames.  A step that only
\* moves a handler from one store call to the next is labelled Idle.
Observed ==
  {"welcome", "world_full", "hello_error", "not_authenticated", "subscribe",
   "section_sent", "apply", "reject", "replay", "leave", "close",
   "hello_timeout", "tick", "flush_failed", "tick_failed"}

EditLabel(op, c, w, sid, dup) ==
  IF op \in Observed
  THEN [op |-> op, c |-> c, w |-> w, sid |-> sid, dup |-> dup]
  ELSE Idle

Label(op, c, w, sid) == EditLabel(op, c, w, sid, FALSE)

RemoveAt(seq, i) == SubSeq(seq, 1, i - 1) \o SubSeq(seq, i + 1, Len(seq))

SeqToSet(seq) == {seq[i] : i \in 1..Len(seq)}

(* ---------------------------------------------------------------- Init *)
\* The memory of a freshly constructed server and the tables the server
\* writes; the access tables are set by Init.
\* The section maps of a world as getOrCreateWorld creates them: no keys.
NoKeys == [subscribers |-> {}, loaded |-> {}, pending |-> << >>]

\* jwksCache as the module creates it: no key set.
NoJwks == [jwks |-> FALSE, fetchedAt |-> 0]

InitServer ==
  /\ sock = [c \in Conns |-> "none"]
  /\ connections = [c \in Conns |-> 0]
  /\ players = [c \in Conns |-> NoPlayer]
  /\ tasks = [c \in Conns |-> << >>]
  /\ worldOrder = << >>
  /\ activePlayers = [w \in WorldIds |-> [u \in Users |-> 0]]
  /\ loadedSections = [w \in WorldIds |-> [s \in Sections |-> NoSection]]
  /\ sectionSubscribers = [w \in WorldIds |-> [s \in Sections |-> {}]]
  /\ pendingEdits = [w \in WorldIds |-> [r \in CacheKeys |-> NoResponse]]
  /\ flushes = [o \in FlushOwners |-> NoFlush]
  /\ persistenceTimer = TRUE
  /\ stopPc = "running"
  /\ storeSections = [w \in WorldIds |-> [s \in Sections |-> NoRow]]
  /\ storeSessions = [w \in WorldIds |-> NoSession]
  /\ now = 0
  /\ restarts = 0
  /\ sent = {}
  /\ last = Idle
  /\ view = [c \in Conns |-> [s \in Sections |-> NoView]]
  /\ lastWritten = [w \in WorldIds |-> [s \in Sections |-> NoContents]]
  /\ received = [w \in WorldIds |-> {}]
  /\ pendingConnections = [c \in Conns |-> 0]
  /\ closeCode = [c \in Conns |-> 0]
  /\ ipConnections = [ip \in IPs |-> << >>]
  /\ verified = << >>
  /\ jwksCache = NoJwks
  /\ sectionKeys = NoKeys

Init == InitServer /\ storeWorlds = OpenStore

(* ------------------------------------------------- sending and observing *)
\* MessageHandler.send: only while the socket is OPEN.
send(c, frame) ==
  IF sock[c] = "open" THEN {[to |-> c, frame |-> frame]} ELSE {}

ErrorFrame(code, fatal) == [type |-> "ERROR", code |-> code, fatal |-> fatal]

\* MessageHandler.sendError: the frame, and for a fatal one ws.close(1000).
sendError(c, code, fatal) == send(c, ErrorFrame(code, fatal))

SockAfterError(c, fatal) ==
  IF fatal /\ sock[c] = "open" THEN [sock EXCEPT ![c] = "closing"] ELSE sock

\* ws.close(code) starts the closing handshake of an open socket; on a socket
\* that is closing or closed it does nothing.
CLOSE_NORMAL == 1000
CLOSE_GOING_AWAY == 1001

\* A close that records no code.
keepCloseCode(c, fatal) == closeCode

CloseCodeAfterError(c, fatal) ==
  IF fatal /\ sock[c] = "open" THEN [closeCode EXCEPT ![c] = CLOSE_NORMAL]
  ELSE closeCode

\* A timer left armed.
keepHelloTimeout(c) == pendingConnections

\* MessageHandler.clearHelloTimeout.
clearHelloTimeout(c) == [pendingConnections EXCEPT ![c] = 0]

getPlayersInWorld(w) == {activePlayers[w][u] : u \in Users} \ {0}

\* MessageHandler.broadcast: every player of the world but `exclude`, open only.
broadcast(w, frame, exclude) ==
  {[to |-> p, frame |-> frame] :
     p \in {q \in getPlayersInWorld(w) :
              players[q].playerId # exclude /\ sock[q] = "open"}}

\* WorldManager.getSectionSubscribers: subscriber ids that are still players.
getSectionSubscribers(w, sid) ==
  {activePlayers[w][u] : u \in sectionSubscribers[w][sid]} \ {0}

\* The world-wide broadcast: the frame goes to every participant of the
\* world, subscribed to the section or not.
broadcastToWorld(w, sid, frame) == broadcast(w, frame, 0)

\* MessageHandler.broadcastToSection.
broadcastToSection(w, sid, frame) ==
  {[to |-> p, frame |-> frame] :
     p \in {q \in getSectionSubscribers(w, sid) : sock[q] = "open"}}

\* The copy of section s that the frames sent to connection c determine,
\* after the frames of one step: SECTION_DATA replaces it with its decoded
\* payload and version, an accepted BLOCK_EVENT in s patches one block and
\* carries the new version.  The copy is kept
\* only while the connection is open and its participant is subscribed to s.
ViewStep(old, c, s, msgs, tracked) ==
  LET mine == {m.frame : m \in {n \in msgs : n.to = c}}
      data == {f \in mine : f.type = "SECTION_DATA" /\ f.section_id = s}
      evts == {f \in mine : /\ f.type = "BLOCK_EVENT"
                            /\ f.accepted
                            /\ worldToSectionId(f.x, f.y, f.z) = s}
  IN  IF ~tracked THEN NoView
      ELSE IF data # {}
        THEN LET f == CHOOSE g \in data : TRUE
             IN  [has |-> TRUE, version |-> f.version,
                  blocks |-> decodeSectionBlocks(f.blocks)]
      ELSE IF old.has /\ evts # {}
        THEN LET f == CHOOSE g \in evts : TRUE
             IN  [has |-> TRUE, version |-> f.section_version,
                  blocks |-> [old.blocks EXCEPT
                     ![worldToBlockIndex(f.x, f.y, f.z)] = ToUint16(f.block_id)]]
      ELSE old

\* Closes a step: records its frames and label and updates the client copies.
\* Must come last in an action: it reads the primed state.
Finish(msgs, lbl) ==
  /\ sent' = msgs
  /\ last' = lbl
  /\ view' = [c \in Conns |-> [s \in Sections |->
       ViewStep(view[c][s], c, s, msgs,
         /\ sock'[c] = "open"
         /\ players'[c].exists
         /\ activePlayers'[players'[c].worldId][players'[c].playerId] = c
         /\ s \in players'[c].subscribedSections
         /\ players'[c].playerId \in
              sectionSubscribers'[players'[c].worldId][s])]]

(* ------------------------------------------------------ handler bookkeeping *)
\* A handler that has just been started by an event has index 0; one that is
\* resumed by a store answer has its index in tasks[c].
Put(c, i, t) == IF i = 0 THEN Append(tasks[c], t) ELSE [tasks[c] EXCEPT ![i] = t]

Drop(c, i) == IF i = 0 THEN tasks[c] ELSE RemoveAt(tasks[c], i)

Suspended(c, i, kind, pc) ==
  /\ i \in 1..Len(tasks[c])
  /\ tasks[c][i].kind = kind
  /\ tasks[c][i].pc = pc

\* A frame is read from a socket that is open, while fewer than MaxInflight
\* earlier handlers of that connection are still in flight.
CanReceive(c) == sock[c] = "open" /\ Len(tasks[c]) < MaxInflight

(* ---------------------------------------------------- connection accept *)
\* GameServer.handleConnection: the connection is registered with no player.
\* The listener exists until the end of stop().
handleConnection(c) ==
  /\ sock[c] = "none"
  /\ stopPc # "stopped"
  /\ sock' = [sock EXCEPT ![c] = "open"]
  /\ connections' = [connections EXCEPT ![c] = -1]
  /\ pendingConnections' =
       [pendingConnections EXCEPT ![c] = now + HELLO_TIMEOUT_MS]
  /\ UNCHANGED <<sectionKeys, jwksCache, ipConnections, verified, players, tasks, worldOrder, activePlayers, loadedSections,
                 sectionSubscribers, pendingEdits, flushes, persistenceTimer,
                 stopPc, storeSections, storeSessions, now, restarts,
                 lastWritten, received, closeCode, storeWorlds>>
  /\ Finish({}, Label("connect", c, DefaultWorld, <<0, 0, 0>>))

(* ---------------------------------------------------------------- HELLO *)
getOrCreateWorld(w) ==
  IF w \in SeqToSet(worldOrder) THEN worldOrder ELSE Append(worldOrder, w)

PlayerCount(w) == Cardinality({u \in Users : activePlayers[w][u] # 0})

\* WorldManager.isWorldFull, called right after validateWorldAccess has
\* created the world.
isWorldFull(w) == PlayerCount(w) >= MAX_PLAYERS_PER_WORLD

\* A HELLO handler ends with an ERROR frame: fatal ones close the socket.
HelloFail(c, i, w, code, fatal) ==
  /\ tasks' = [tasks EXCEPT ![c] = Drop(c, i)]
  /\ sock' = SockAfterError(c, fatal)
  /\ closeCode' = CloseCodeAfterError(c, fatal)
  /\ pendingConnections' = clearHelloTimeout(c)
  /\ UNCHANGED <<sectionKeys, jwksCache, ipConnections, verified, connections, players, worldOrder, activePlayers,
                 loadedSections, sectionSubscribers, pendingEdits, flushes,
                 persistenceTimer, stopPc, storeSections, storeSessions, now,
                 restarts, lastWritten, received, storeWorlds>>
  /\ Finish(sendError(c, code, fatal), Label("hello_error", c, w, <<0, 0, 0>>))

\* handleHello from the success of validateWorldAccess on: the world exists
\* in the registry, the capacity check, and addPlayer up to its first await
\* (getUserDisplayName; handleHello passes no display-name hint).
HelloAccessGranted(c, i, t) ==
  IF isWorldFull(t.world)
  THEN /\ tasks' = [tasks EXCEPT ![c] = Drop(c, i)]
       /\ sock' = SockAfterError(c, TRUE)
       /\ closeCode' = CloseCodeAfterError(c, TRUE)
       /\ pendingConnections' = clearHelloTimeout(c)
       /\ worldOrder' = getOrCreateWorld(t.world)
       /\ UNCHANGED <<sectionKeys, jwksCache, ipConnections, verified, connections, players, activePlayers, loadedSections,
                      sectionSubscribers, pendingEdits, flushes,
                      persistenceTimer, stopPc, storeSections, storeSessions,
                      now, restarts, lastWritten, received, storeWorlds>>
       /\ Finish(sendError(c, "WORLD_FULL", TRUE),
                 Label("world_full", c, t.world, <<0, 0, 0>>))
  ELSE /\ tasks' = [tasks EXCEPT ![c] = Put(c, i, [t EXCEPT !.pc = "name"])]
       /\ worldOrder' = getOrCreateWorld(t.world)
       /\ pendingConnections' = clearHelloTimeout(c)
       /\ UNCHANGED <<sectionKeys, jwksCache, ipConnections, verified, sock, connections, players, activePlayers,
                      loadedSections, sectionSubscribers, pendingEdits,
                      flushes, persistenceTimer, stopPc, storeSections,
                      storeSessions, now, restarts, lastWritten, received, closeCode, storeWorlds>>
       /\ Finish({}, Label("hello_checked", c, t.world, <<0, 0, 0>>))

HelloTask(msg) ==
  [kind |-> "HELLO", pc |-> "getWorld", world |-> msg.world_id,
   user |-> msg.sub, isPublic |-> TRUE, isOwner |-> FALSE]

\* GameServer.handleMessage case HELLO and MessageHandler.handleHello up to
\* the first store call.  msg.valid is the outcome of verifyJWT on a simple
\* (unsigned) token, which involves no I/O.
HelloReceived(c, msg) ==
     IF connections[c] > 0
     THEN HelloFail(c, 0, msg.world_id, "INVALID_REQUEST", FALSE)
     ELSE IF msg.protocol_version # PROTOCOL_VERSION
     THEN HelloFail(c, 0, msg.world_id, "INVALID_REQUEST", TRUE)
     ELSE IF msg.registry_version # REGISTRY_VERSION
     THEN HelloFail(c, 0, msg.world_id, "REGISTRY_MISMATCH", TRUE)
     ELSE IF msg.generator_version # GENERATOR_VERSION
     THEN HelloFail(c, 0, msg.world_id, "GENERATOR_MISMATCH", TRUE)
     ELSE IF ~msg.valid
     THEN HelloFail(c, 0, msg.world_id, "AUTH_FAILED", TRUE)
     ELSE IF msg.world_id = DefaultWorld
     THEN HelloAccessGranted(c, 0, HelloTask(msg))
     ELSE /\ tasks' = [tasks EXCEPT ![c] = Put(c, 0, HelloTask(msg))]
          /\ pendingConnections' = clearHelloTimeout(c)
          /\ UNCHANGED <<sectionKeys, jwksCache, ipConnections, verified, sock, connections, players, worldOrder,
                         activePlayers, loadedSections, sectionSubscribers,
                         pendingEdits, flushes, persistenceTimer, stopPc,
                         storeSections, storeSessions, now, restarts,
                         lastWritten, received, closeCode, storeWorlds>>
          /\ Finish({}, Label("hello_recv", c, msg.world_id, <<0, 0, 0>>))

\* The first HELLO of a connection, or a later one received when no HELLO
\* of the connection is in flight.
handleHello(c, msg) ==
  /\ CanReceive(c)
  /\ \A i \in 1..Len(tasks[c]) : tasks[c][i].kind # "HELLO"
  /\ HelloReceived(c, msg)

\* A HELLO received while an earlier HELLO of the same connection is still
\* suspended at a store call: connections.get(ws) is still null.  The
\* inputs repeat the user and the world of the HELLO in flight.
handleHelloAgain(c, msg) ==
  /\ CanReceive(c)
  /\ \E i \in 1..Len(tasks[c]) :
       /\ tasks[c][i].kind = "HELLO"
       /\ tasks[c][i].user = msg.sub
       /\ tasks[c][i].world = msg.world_id
  /\ HelloReceived(c, msg)

\* The timer of setupHelloTimeout fires HELLO_TIMEOUT_MS after the connection
\* was accepted, or later: a fatal AUTH_FAILED.  pendingConnections[c] is the
\* time at which the armed timer of c is due, 0 when no timer is armed; a
\* timer that has fired does not fire again.
helloTimeout(c) ==
  /\ pendingConnections[c] > 0
  /\ now >= pendingConnections[c]
  /\ pendingConnections' = [pendingConnections EXCEPT ![c] = 0]
  /\ sock' = SockAfterError(c, TRUE)
  /\ closeCode' = CloseCodeAfterError(c, TRUE)
  /\ UNCHANGED <<sectionKeys, jwksCache, ipConnections, verified, connections, players, tasks, worldOrder, activePlayers,
                 loadedSections, sectionSubscribers, pendingEdits, flushes,
                 persistenceTimer, stopPc, storeSections, storeSessions, now,
                 restarts, lastWritten, received, storeWorlds>>
  /\ Finish(sendError(c, "AUTH_FAILED", TRUE),
            Label("hello_timeout", c, DefaultWorld, <<0, 0, 0>>))

\* validateWorldAccess resumes with the answer of getWorld: the row (public
\* or private, owned by the user or not), no row, or a transient error, which
\* is thrown up to the catch of the message listener in handleConnection.
HelloGetWorldDone(c, i, res) ==
  /\ Suspended(c, i, "HELLO", "getWorld")
  /\ LET t == tasks[c][i]
     IN  CASE res = "missing" -> HelloFail(c, i, t.world, "WORLD_NOT_FOUND", TRUE)
           [] res = "error" -> HelloFail(c, i, t.world, "INVALID_REQUEST", FALSE)
           [] OTHER ->
                /\ tasks' = [tasks EXCEPT ![c] = Put(c, i,
                     [t EXCEPT !.pc = "ban",
                               !.isPublic = (res = "public"),
                               !.isOwner = (res = "private_owner")])]
                /\ UNCHANGED <<sectionKeys, jwksCache, ipConnections, verified, sock, connections, players, worldOrder,
                               activePlayers, loadedSections,
                               sectionSubscribers, pendingEdits, flushes,
                               persistenceTimer, stopPc, storeSections,
                               storeSessions, now, restarts, lastWritten, received, pendingConnections, closeCode, storeWorlds>>
                /\ Finish({}, Label("hello_world", c, t.world, <<0, 0, 0>>))

\* ... with the answer of checkWorldBan.
HelloBanDone(c, i, res) ==
  /\ Suspended(c, i, "HELLO", "ban")
  /\ LET t == tasks[c][i]
     IN  CASE res = "banned" -> HelloFail(c, i, t.world, "PERMISSION_DENIED", TRUE)
           [] res = "error" -> HelloFail(c, i, t.world, "INVALID_REQUEST", FALSE)
           [] OTHER ->
                IF t.isPublic
                THEN HelloAccessGranted(c, i, t)
                ELSE /\ tasks' = [tasks EXCEPT ![c] = Put(c, i,
                          [t EXCEPT !.pc = "member"])]
                     /\ UNCHANGED <<sectionKeys, jwksCache, ipConnections, verified, sock, connections, players, worldOrder,
                                    activePlayers, loadedSections,
                                    sectionSubscribers, pendingEdits, flushes,
                                    persistenceTimer, stopPc, storeSections,
                                    storeSessions, now, restarts, lastWritten, received, pendingConnections, closeCode, storeWorlds>>
                     /\ Finish({}, Label("hello_ban", c, t.world, <<0, 0, 0>>))

\* ... with the answer of checkWorldMembership (private worlds only).
HelloMemberDone(c, i, res) ==
  /\ Suspended(c, i, "HELLO", "member")
  /\ LET t == tasks[c][i]
     IN  CASE res = "error" -> HelloFail(c, i, t.world, "INVALID_REQUEST", FALSE)
           [] res = "nonmember" /\ ~t.isOwner ->
                HelloFail(c, i, t.world, "PERMISSION_DENIED", TRUE)
           [] OTHER -> HelloAccessGranted(c, i, t)

\* The answers of the store computed from its tables, for the runs in which
\* the tables are given.  getWorld: the row, or null for no row.
getWorld(w, u) ==
  LET row == storeWorlds[w]
  IN  IF ~row.present THEN "missing"
      ELSE IF row.is_public THEN "public"
      ELSE IF row.owner_id = u THEN "private_owner"
      ELSE "private"

\* A world in which nobody is banned.
neverBanned(w, u) == "clear"

\* checkWorldBan: no row is not banned; a row whose expires_at is set and
\* lies before the present is not banned; any other row is banned.
checkWorldBan(w, u) ==
  LET row == storeWorlds[w].bans[u]
  IN  IF ~row.present THEN "clear"
      ELSE IF ~row.permanent /\ row.expires_at < now THEN "clear"
      ELSE "banned"

\* checkWorldMembership: whether world_members has a row of the user.
checkWorldMembership(w, u) ==
  IF u \in storeWorlds[w].members THEN "member" ELSE "nonmember"

\* validateWorldAccess resuming with the answers of the tables.
validateWorldAccessGotWorld(c, i) ==
  /\ Suspended(c, i, "HELLO", "getWorld")
  /\ HelloGetWorldDone(c, i, getWorld(tasks[c][i].world, tasks[c][i].user))

validateWorldAccessGotBan(c, i) ==
  /\ Suspended(c, i, "HELLO", "ban")
  /\ HelloBanDone(c, i, checkWorldBan(tasks[c][i].world, tasks[c][i].user))

validateWorldAccessGotMember(c, i) ==
  /\ Suspended(c, i, "HELLO", "member")
  /\ HelloMemberDone(c, i,
       checkWorldMembership(tasks[c][i].world, tasks[c][i].user))

\* addPlayer resumes with the display name: the Player object is created and
\* stored under its user id, replacing whatever was stored there.
HelloNameDone(c, i) ==
  /\ Suspended(c, i, "HELLO", "name")
  /\ LET t == tasks[c][i]
     IN  /\ players' = [players EXCEPT ![c] =
               [NoPlayer EXCEPT !.exists = TRUE, !.playerId = t.user,
                                !.worldId = t.world, !.lastEditReset = now,
                                !.lastSubscribeReset = now]]
         /\ activePlayers' = [activePlayers EXCEPT ![t.world][t.user] = c]
         /\ tasks' = [tasks EXCEPT ![c] = Put(c, i,
              [t EXCEPT !.pc = IF t.world # DefaultWorld THEN "join" ELSE "reg"])]
         /\ UNCHANGED <<sectionKeys, jwksCache, ipConnections, verified, sock, connections, worldOrder, loadedSections,
                        sectionSubscribers, pendingEdits, flushes,
                        persistenceTimer, stopPc, storeSections, storeSessions,
                        now, restarts, lastWritten, received, pendingConnections, closeCode, storeWorlds>>
         /\ Finish({}, Label("add_player", c, t.world, <<0, 0, 0>>))

\* addPlayer resumes after recordPlayerJoin (its errors are only logged);
\* handleHello goes on to registerWorldSession.
HelloJoinDone(c, i) ==
  /\ Suspended(c, i, "HELLO", "join")
  /\ tasks' = [tasks EXCEPT ![c] = Put(c, i, [tasks[c][i] EXCEPT !.pc = "reg"])]
  /\ UNCHANGED <<sectionKeys, jwksCache, ipConnections, verified, sock, connections, players, worldOrder, activePlayers,
                 loadedSections, sectionSubscribers, pendingEdits, flushes,
                 persistenceTimer, stopPc, storeSections, storeSessions, now,
                 restarts, lastWritten, received, pendingConnections, closeCode, storeWorlds>>
  /\ Finish({}, Label("hello_join", c, tasks[c][i].world, <<0, 0, 0>>))

WelcomeFrame(w, u) ==
  [type |-> "WELCOME", player_id |-> u,
   players |-> {players[q].playerId : q \in getPlayersInWorld(w)} \ {u}]

\* handleHello resumes after registerWorldSession (a failure is caught and
\* logged): WELCOME, PLAYER_JOIN to the others, and handleMessage stores the
\* player under the connection.
HelloRegDone(c, i, ok) ==
  /\ Suspended(c, i, "HELLO", "reg")
  /\ LET t == tasks[c][i]
     IN  /\ storeSessions' =
              IF ok THEN [storeSessions EXCEPT ![t.world] =
                            [status |-> "online", instance |-> restarts]]
              ELSE storeSessions
         /\ connections' = [connections EXCEPT ![c] = c]
         /\ tasks' = [tasks EXCEPT ![c] = Drop(c, i)]
         /\ UNCHANGED <<sectionKeys, jwksCache, ipConnections, verified, sock, players, worldOrder, activePlayers,
                        loadedSections, sectionSubscribers, pendingEdits,
                        flushes, persistenceTimer, stopPc, storeSections, now,
                        restarts, lastWritten, received, pendingConnections, closeCode, storeWorlds>>
         /\ Finish(send(c, WelcomeFrame(t.world, t.user))
                     \cup broadcast(t.world,
                            [type |-> "PLAYER_JOIN", player_id |-> t.user], t.user),
                   Label("welcome", c, t.world, <<0, 0, 0>>))

(* ------------------------------------------------------------- flushing *)
DirtyIn(w) ==
  {s \in Sections : loadedSections[w][s].loaded /\ loadedSections[w][s].dirty}

\* flushDirtySections walks the worlds in insertion order from position
\* `from`; it suspends at the first one, other than default-world, that has
\* dirty sections (0: there is none, the walk ends).
NextFlushIndex(from) ==
  LET hits == {j \in from..Len(worldOrder) :
                 worldOrder[j] # DefaultWorld /\ DirtyIn(worldOrder[j]) # {}}
  IN  IF hits = {} THEN 0 ELSE CHOOSE j \in hits : \A k \in hits : j <= k

\* saveSections builds its records (version, bytes) before the upsert is
\* sent; `batch` are the Section objects whose flag is cleared on success.
FlushRecord(j) ==
  LET w == worldOrder[j]
  IN  [active |-> TRUE, world |-> w, idx |-> j, batch |-> DirtyIn(w),
       records |-> [s \in Sections |->
          IF s \in DirtyIn(w)
          THEN [present |-> TRUE, version |-> loadedSections[w][s].version,
                blocks |-> BlocksToBytes(loadedSections[w][s].blocks)]
          ELSE NoRow],
       contents |-> [s \in Sections |->
          IF s \in DirtyIn(w)
          THEN [written |-> TRUE, version |-> loadedSections[w][s].version,
                blocks |-> loadedSections[w][s].blocks]
          ELSE NoContents]]

StartFlush == IF NextFlushIndex(1) = 0 THEN NoFlush ELSE FlushRecord(NextFlushIndex(1))

\* The answer of the batched upsert: on success the rows replace the stored
\* ones and the dirty flags of the batch are cleared; on an error nothing
\* changes.  Then the walk goes on with the next world.
FlushAnswer(o, ok) ==
  LET f == flushes[o]
      cleared == [loadedSections EXCEPT ![f.world] =
                    [s \in Sections |->
                       IF s \in f.batch THEN [@[s] EXCEPT !.dirty = FALSE]
                       ELSE @[s]]]
      j == NextFlushIndex(f.idx + 1)
  IN  /\ flushes[o].active
      /\ storeSections' =
           IF ok THEN [storeSections EXCEPT ![f.world] =
                         [s \in Sections |->
                            IF f.records[s].present THEN f.records[s] ELSE @[s]]]
           ELSE storeSections
      /\ lastWritten' =
           IF ok THEN [lastWritten EXCEPT ![f.world] =
                         [s \in Sections |->
                            IF f.contents[s].written THEN f.contents[s] ELSE @[s]]]
           ELSE lastWritten
      /\ loadedSections' = IF ok THEN cleared ELSE loadedSections
      /\ flushes' = [flushes EXCEPT ![o] = IF j = 0 THEN NoFlush ELSE FlushRecord(j)]

FlushEnds(o) == NextFlushIndex(flushes[o].idx + 1) = 0

\* The persistence timer fires (every PERSISTENCE_BATCH_WINDOW_MS) and finds
\* something to save; a firing that finds nothing changes nothing.
flushDirtySections ==
  /\ persistenceTimer
  /\ ~flushes[TimerFlush].active
  /\ NextFlushIndex(1) # 0
  /\ flushes' = [flushes EXCEPT ![TimerFlush] = StartFlush]
  /\ UNCHANGED <<sectionKeys, jwksCache, ipConnections, verified, sock, connections, players, tasks, worldOrder, activePlayers,
                 loadedSections, sectionSubscribers, pendingEdits,
                 persistenceTimer, stopPc, storeSections, storeSessions, now,
                 restarts, lastWritten, received, pendingConnections, closeCode, storeWorlds>>
  /\ Finish({}, Label("flush_start", 0, worldOrder[NextFlushIndex(1)], <<0, 0, 0>>))

saveSectionsDone(ok) ==
  /\ FlushAnswer(TimerFlush, ok)
  /\ UNCHANGED <<sectionKeys, jwksCache, ipConnections, verified, sock, connections, players, tasks, worldOrder, activePlayers,
                 sectionSubscribers, pendingEdits, persistenceTimer, stopPc,
                 storeSessions, now, restarts, received, pendingConnections, closeCode, storeWorlds>>
  /\ Finish({}, Label(IF ok THEN "flushed" ELSE "flush_failed", 0,
                      flushes[TimerFlush].world, <<0, 0, 0>>))

(* ----------------------------------------------------------- disconnect *)
CloseTask(w, pc) == [kind |-> "CLOSE", pc |-> pc, world |-> w]

CloseIndex(c) == CHOOSE i \in 1..Len(tasks[c]) : tasks[c][i].kind = "CLOSE"

\* removePlayer up to its first await.  The player is looked up by user id in
\* the world: its subscriptions leave the index and it leaves the world.
RemovedSubscribers(w, u) ==
  LET p == activePlayers[w][u]
  IN  [sectionSubscribers EXCEPT ![w] =
         [s \in Sections |->
            IF s \in players[p].subscribedSections THEN @[s] \ {u} ELSE @[s]]]

\* The 'close' listener of handleConnection with handleDisconnect: PLAYER_LEAVE
\* to the others and removePlayer, which awaits recordPlayerLeave except in
\* default-world, flushes when the world is left empty, and then the
\* connection leaves the connection table.
onClose(c) ==
  /\ sock[c] \in {"open", "closing"}
  /\ sock' = [sock EXCEPT ![c] = "closed"]
  /\ pendingConnections' = clearHelloTimeout(c)
  /\ UNCHANGED <<sectionKeys, jwksCache, ipConnections, verified, players, worldOrder, loadedSections, pendingEdits,
                 persistenceTimer, stopPc, storeSections, storeSessions, now,
                 restarts, lastWritten, received, closeCode, storeWorlds>>
  /\ IF connections[c] <= 0
     THEN /\ connections' = [connections EXCEPT ![c] = 0]
          /\ UNCHANGED <<sectionKeys, jwksCache, ipConnections, verified, tasks, activePlayers, sectionSubscribers, flushes>>
          /\ Finish({}, Label("close", c, DefaultWorld, <<0, 0, 0>>))
     ELSE LET w == players[c].worldId
              u == players[c].playerId
              leave == broadcast(w, [type |-> "PLAYER_LEAVE", player_id |-> u], u)
          IN  IF activePlayers[w][u] = 0
              THEN /\ connections' = [connections EXCEPT ![c] = 0]
                   /\ UNCHANGED <<sectionKeys, jwksCache, ipConnections, verified, tasks, activePlayers, sectionSubscribers, flushes>>
                   /\ Finish(leave, Label("close", c, w, <<0, 0, 0>>))
              ELSE /\ sectionSubscribers' = RemovedSubscribers(w, u)
                   /\ activePlayers' = [activePlayers EXCEPT ![w][u] = 0]
                   /\ IF w # DefaultWorld
                      THEN /\ tasks' = [tasks EXCEPT ![c] =
                                 Append(@, CloseTask(w, "leave"))]
                           /\ UNCHANGED <<sectionKeys, jwksCache, ipConnections, verified, connections, flushes>>
                      ELSE IF PlayerCount(w) = 1 /\ StartFlush.active
                      THEN /\ tasks' = [tasks EXCEPT ![c] =
                                 Append(@, CloseTask(w, "flush"))]
                           /\ flushes' = [flushes EXCEPT ![c] = StartFlush]
                           /\ UNCHANGED connections
                      ELSE /\ connections' = [connections EXCEPT ![c] = 0]
                           /\ UNCHANGED <<sectionKeys, jwksCache, ipConnections, verified, tasks, flushes>>
                   /\ Finish(leave, Label("leave", c, w, <<0, 0, 0>>))

\* removePlayer resumes after recordPlayerLeave (its errors are only logged).
recordPlayerLeaveDone(c) ==
  /\ \E i \in 1..Len(tasks[c]) : Suspended(c, i, "CLOSE", "leave")
  /\ LET i == CloseIndex(c)
         w == tasks[c][i].world
     IN  IF PlayerCount(w) = 0 /\ StartFlush.active
         THEN /\ tasks' = [tasks EXCEPT ![c][i].pc = "flush"]
              /\ flushes' = [flushes EXCEPT ![c] = StartFlush]
              /\ UNCHANGED connections
         ELSE /\ tasks' = [tasks EXCEPT ![c] = RemoveAt(@, i)]
              /\ connections' = [connections EXCEPT ![c] = 0]
              /\ UNCHANGED flushes
  /\ UNCHANGED <<sectionKeys, jwksCache, ipConnections, verified, sock, players, worldOrder, activePlayers, loadedSections,
                 sectionSubscribers, pendingEdits, persistenceTimer, stopPc,
                 storeSections, storeSessions, now, restarts, lastWritten, received, pendingConnections, closeCode, storeWorlds>>
  /\ Finish({}, Label("left", c, DefaultWorld, <<0, 0, 0>>))

\* The flush of removePlayer gets its answer.
removePlayerFlushDone(c, ok) ==
  /\ \E i \in 1..Len(tasks[c]) : Suspended(c, i, "CLOSE", "flush")
  /\ FlushAnswer(c, ok)
  /\ IF FlushEnds(c)
     THEN /\ tasks' = [tasks EXCEPT ![c] = RemoveAt(@, CloseIndex(c))]
          /\ connections' = [connections EXCEPT ![c] = 0]
     ELSE UNCHANGED <<sectionKeys, jwksCache, ipConnections, verified, tasks, connections>>
  /\ UNCHANGED <<sectionKeys, jwksCache, ipConnections, verified, sock, players, worldOrder, activePlayers, sectionSubscribers,
                 pendingEdits, persistenceTimer, stopPc, storeSessions, now,
                 restarts, received, pendingConnections, closeCode, storeWorlds>>
  /\ Finish({}, Label(IF ok THEN "flushed" ELSE "flush_failed", c,
                      flushes[c].world, <<0, 0, 0>>))

(* ------------------------------------------------------------- shutdown *)
\* GameServer.stop up to its first await: the connections are closed with
\* 1001, the persistence timer is cleared and the final flush is started.
stopBegins ==
  /\ sock' = [c \in Conns |->
       IF connections[c] # 0 /\ sock[c] = "open" THEN "closing" ELSE sock[c]]
  /\ closeCode' = [c \in Conns |->
       IF connections[c] # 0 /\ sock[c] = "open" THEN CLOSE_GOING_AWAY
       ELSE closeCode[c]]
  /\ persistenceTimer' = FALSE
  /\ flushes' = [flushes EXCEPT ![StopFlush] = StartFlush]
  /\ stopPc' = IF StartFlush.active THEN "flush" ELSE "cleanup"
  /\ UNCHANGED <<sectionKeys, jwksCache, ipConnections, verified, connections, players, tasks, worldOrder, activePlayers,
                 loadedSections, sectionSubscribers, pendingEdits,
                 storeSections, storeSessions, now, restarts, lastWritten, received, pendingConnections, storeWorlds>>

stop ==
  /\ stopPc = "running"
  /\ stopBegins
  /\ Finish({}, Label("stop", 0, DefaultWorld, <<0, 0, 0>>))

\* The final flush gets its answer; then cleanupStaleWorldSessions is called.
stopFlushDone(ok) ==
  /\ stopPc = "flush"
  /\ FlushAnswer(StopFlush, ok)
  /\ stopPc' = IF FlushEnds(StopFlush) THEN "cleanup" ELSE "flush"
  /\ UNCHANGED <<sectionKeys, jwksCache, ipConnections, verified, sock, connections, players, tasks, worldOrder, activePlayers,
                 sectionSubscribers, pendingEdits, persistenceTimer,
                 storeSessions, now, restarts, received, pendingConnections, closeCode, storeWorlds>>
  /\ Finish({}, Label(IF ok THEN "flushed" ELSE "flush_failed", 0,
                      flushes[StopFlush].world, <<0, 0, 0>>))

\* cleanupStaleWorldSessions answers (an error is only logged): the rows of
\* this instance are set offline; the listener is closed; stop returns.
cleanupStaleWorldSessionsDone(ok) ==
  /\ stopPc = "cleanup"
  /\ storeSessions' =
       IF ok THEN [w \in WorldIds |->
                     IF storeSessions[w].status # "none"
                        /\ storeSessions[w].instance = restarts
                     THEN [storeSessions[w] EXCEPT !.status = "offline"]
                     ELSE storeSessions[w]]
       ELSE storeSessions
  /\ stopPc' = "stopped"
  /\ UNCHANGED <<sectionKeys, jwksCache, ipConnections, verified, sock, connections, players, tasks, worldOrder, activePlayers,
                 loadedSections, sectionSubscribers, pendingEdits, flushes,
                 persistenceTimer, storeSections, now, restarts, lastWritten, received, pendingConnections, closeCode, storeWorlds>>
  /\ Finish({}, Label("stopped", 0, DefaultWorld, <<0, 0, 0>>))

\* The process dies and is constructed and started again: the memory is as
\* after construction, the store keeps its rows.
Restart ==
  /\ restarts < MaxRestarts
  /\ restarts' = restarts + 1
  /\ sock' = [c \in Conns |-> "none"]
  /\ connections' = [c \in Conns |-> 0]
  /\ players' = [c \in Conns |-> NoPlayer]
  /\ tasks' = [c \in Conns |-> << >>]
  /\ worldOrder' = << >>
  /\ activePlayers' = [w \in WorldIds |-> [u \in Users |-> 0]]
  /\ loadedSections' = [w \in WorldIds |-> [s \in Sections |-> NoSection]]
  /\ sectionSubscribers' = [w \in WorldIds |-> [s \in Sections |-> {}]]
  /\ pendingEdits' = [w \in WorldIds |-> [r \in CacheKeys |-> NoResponse]]
  /\ flushes' = [o \in FlushOwners |-> NoFlush]
  /\ persistenceTimer' = TRUE
  /\ stopPc' = "running"
  /\ received' = [w \in WorldIds |-> {}]
  /\ pendingConnections' = [c \in Conns |-> 0]
  /\ closeCode' = [c \in Conns |-> 0]
  /\ ipConnections' = [ip \in IPs |-> << >>]
  /\ jwksCache' = NoJwks
  /\ sectionKeys' = NoKeys
  /\ UNCHANGED <<verified, storeSections, storeSessions, now, lastWritten, storeWorlds>>
  /\ Finish({}, Label("restart", 0, DefaultWorld, <<0, 0, 0>>))

(* -------------------------------------------------------- section loading *)
\* persistence loadSection, by the answer of the store: the stored row
\* ("row"; `data.version || 1`), no row, a transient error or a blob of the
\* wrong length (all three: the generated baseline).
loadSection(w, sid, res) ==
  LET row == storeSections[w][sid]
  IN  IF res = "row" /\ row.present /\ Len(row.blocks) = SectionBytes
      THEN [loaded |-> TRUE,
            version |-> IF row.version = 0 THEN 1 ELSE row.version,
            blocks |-> decodeSectionBlocksFromDb(row.blocks),
            dirty |-> FALSE, fromDatabase |-> TRUE]
      ELSE generateBaselineSection(sid)

\* The answers the store can give on a load: a row only if it holds one.
LoadAnswers(w, sid) ==
  IF storeSections[w][sid].present THEN {"row", "error"} ELSE {"none", "error"}

\* getSection stores the loaded Section under its id, whatever is stored
\* there.  A flush in flight keeps the Section objects of its batch: a
\* replaced object is no longer the one in the map.
Orphaned(w, sid) ==
  [o \in FlushOwners |->
     IF flushes[o].active /\ flushes[o].world = w
     THEN [flushes[o] EXCEPT !.batch = @ \ {sid}]
     ELSE flushes[o]]

SectionData(sid, sec) ==
  [type |-> "SECTION_DATA", section_id |-> sid, version |-> sec.version,
   blocks |-> encodeSectionBlocks(sec.blocks),
   is_baseline |-> ~sec.fromDatabase]

(* ------------------------------------------------------------ SUBSCRIBE *)
\* WorldManager.unsubscribeFromSection for each id of a set, on behalf of
\* user u of world w: the player stored under u and the index.
Unsubscribed(pl, w, u, ids) ==
  LET p == activePlayers[w][u]
  IN  IF p = 0 THEN pl
      ELSE [pl EXCEPT ![p].subscribedSections = @ \ ids]

UnsubscribedIndex(ix, u, ids) ==
  [s \in Sections |-> IF s \in ids THEN ix[s] \ {u} ELSE ix[s]]

\* The subscribe loop of handleSubscribe from position k of section_ids.
\* st.players and st.index are the players and the world's index so far,
\* st.errors the ERROR frames.  The caps are read from the handler's own
\* Player object (c); subscribeToSection updates the player stored under
\* the user id.
RECURSIVE SubscribeLoop(_, _, _, _)
SubscribeLoop(c, ids, k, st) ==
  IF k > Len(ids) THEN st
  ELSE
    LET sid == ids[k]
        me == st.players[c]
        p == activePlayers[me.worldId][me.playerId]
    IN  IF me.subscribeCount >= MAX_SUBSCRIBE_PER_SECOND
        THEN [st EXCEPT !.errors = @ \cup {ErrorFrame("RATE_LIMITED", FALSE)}]
        ELSE IF Cardinality(me.subscribedSections) >= MAX_SECTIONS_MOBILE
        THEN [st EXCEPT !.errors = @ \cup {ErrorFrame("RATE_LIMITED", FALSE)}]
        ELSE IF ~isValidSectionCoord(sid[1], sid[2], sid[3])
        THEN SubscribeLoop(c, ids, k + 1,
               [st EXCEPT !.errors = @ \cup {ErrorFrame("INVALID_REQUEST", FALSE)}])
        ELSE
          LET p1 == IF p = 0 THEN st.players
                    ELSE [st.players EXCEPT ![p].subscribedSections = @ \cup {sid}]
              ix == IF p = 0 THEN st.index
                    ELSE [st.index EXCEPT ![sid] = @ \cup {me.playerId}]
              p2 == [p1 EXCEPT ![c].subscribeCount = @ + 1,
                               ![c].pendingSections = Append(@, sid)]
          IN  SubscribeLoop(c, ids, k + 1,
                [st EXCEPT !.players = p2, !.index = ix])

\* The loop of sendPendingSections with n iterations left.  st.pending is the
\* player's queue, st.secs the world's loaded sections, st.frames the
\* SECTION_DATA frames so far; st.wait is set when getSection has to load
\* st.sid from the store, with st.left iterations to go after it.
RECURSIVE SendLoop(_, _, _)
SendLoop(w, n, st) ==
  IF n = 0 \/ st.pending = << >> THEN st
  ELSE
    LET sid == Head(st.pending)
        rest == Tail(st.pending)
    IN  IF st.secs[sid].loaded
        THEN SendLoop(w, n - 1,
               [st EXCEPT !.pending = rest,
                          !.frames = @ \cup {SectionData(sid, st.secs[sid])}])
        ELSE IF w = DefaultWorld
        THEN SendLoop(w, n - 1,
               [st EXCEPT !.pending = rest,
                          !.secs = [@ EXCEPT ![sid] = generateBaselineSection(sid)],
                          !.frames = @ \cup
                             {SectionData(sid, generateBaselineSection(sid))}])
        ELSE [st EXCEPT !.pending = rest, !.wait = TRUE, !.sid = sid,
                        !.left = n - 1]

SendState(pending, secs) ==
  [pending |-> pending, secs |-> secs, frames |-> {}, wait |-> FALSE,
   sid |-> <<0, 0, 0>>, left |-> 0]

PendTask(w, sid, left) ==
  [kind |-> "PEND", pc |-> "load", world |-> w, sid |-> sid, left |-> left]

\* sendPendingSections(player) run from the player set pl up to its next
\* store load or its end, as handler i of connection c.
sendPendingSections(c, i, pl, secsW, fl, errs, lbl) ==
  LET w == players[c].worldId
      n == Min(Len(pl[c].pendingSections), SECTIONS_PER_SECOND_MOBILE)
      r == SendLoop(w, n, SendState(pl[c].pendingSections, secsW))
  IN  /\ players' = [pl EXCEPT ![c].pendingSections = r.pending]
      /\ loadedSections' = [loadedSections EXCEPT ![w] = r.secs]
      /\ flushes' = fl
      /\ tasks' = [tasks EXCEPT ![c] =
           IF r.wait THEN Put(c, i, PendTask(w, r.sid, r.left)) ELSE Drop(c, i)]
      /\ UNCHANGED <<sectionKeys, jwksCache, ipConnections, verified, sock, connections, worldOrder, activePlayers,
                     pendingEdits, persistenceTimer, stopPc, storeSections,
                     storeSessions, now, restarts, lastWritten, received, pendingConnections, closeCode, storeWorlds>>
      /\ Finish({[to |-> c, frame |-> f] : f \in
                   IF sock[c] = "open" THEN errs \cup r.frames ELSE {}}, lbl)

\* MessageHandler.createSnapshot: the players stored in the world.
createSnapshot(w) ==
  [type |-> "SNAPSHOT",
   players |-> {[player_id |-> players[q].playerId,
                 position |-> players[q].position] : q \in getPlayersInWorld(w)}]

\* The worlds of the players that GameServer.connections holds.
TickWorlds == {players[c].worldId : c \in {d \in Conns : connections[d] > 0}}

\* The last loop of tick: sendPendingSections for each connection of S that
\* holds a player with a non-empty queue, each run up to its first store
\* load or its end.  st.players, st.secs and st.tasks are the players, the
\* loaded sections of every world and the handlers in flight so far.
RECURSIVE TickSend(_, _)
TickSend(S, st) ==
  IF S = {} THEN st
  ELSE
    LET c == CHOOSE a \in S : \A b \in S : a <= b
        me == st.players[c]
        w == me.worldId
        n == Min(Len(me.pendingSections), SECTIONS_PER_SECOND_MOBILE)
        r == SendLoop(w, n, SendState(me.pendingSections, st.secs[w]))
    IN  IF connections[c] <= 0 \/ me.pendingSections = << >>
        THEN TickSend(S \ {c}, st)
        ELSE TickSend(S \ {c},
               [players |-> [st.players EXCEPT ![c].pendingSections = r.pending],
                secs |-> [st.secs EXCEPT ![w] = r.secs],
                tasks |-> IF r.wait
                          THEN [st.tasks EXCEPT ![c] =
                                  Append(@, PendTask(w, r.sid, r.left))]
                          ELSE st.tasks,
                frames |-> st.frames \cup
                   IF sock[c] = "open"
                   THEN {[to |-> c, frame |-> f] : f \in r.frames} ELSE {}])

\* GameServer.tick: a SNAPSHOT of every world of a connected player is
\* broadcast to the players stored in that world, then the queues are served.
tick ==
  /\ stopPc = "running"
  /\ \A c \in Conns :
       (connections[c] > 0 /\ players[c].pendingSections # << >>) =>
         Len(tasks[c]) < MaxInflight
  /\ LET snaps == UNION {broadcast(w, createSnapshot(w), 0) : w \in TickWorlds}
         r == TickSend(Conns, [players |-> players, secs |-> loadedSections,
                               tasks |-> tasks, frames |-> {}])
     IN  /\ players' = r.players
         /\ loadedSections' = r.secs
         /\ tasks' = r.tasks
         /\ UNCHANGED <<sectionKeys, jwksCache, ipConnections, verified, sock, connections, worldOrder, activePlayers,
                        sectionSubscribers, pendingEdits, flushes,
                        persistenceTimer, stopPc, storeSections,
                        storeSessions, now, restarts, lastWritten, received,
                        pendingConnections, closeCode, storeWorlds>>
         /\ Finish(snaps \cup r.frames, Label("tick", 0, DefaultWorld, <<0, 0, 0>>))

\* GameServer.tick when connection.send throws for connection c inside
\* broadcast: nothing in broadcast, tick or the interval callback catches,
\* so the players that the loop had reached before c have their SNAPSHOT and
\* the rest of the tick is not run (the model does not keep the insertion
\* order of the maps: any subset may have come first).  The exception
\* reaches process.on('uncaughtException'), which calls server.stop() and
\* exits when stop has returned.
tickThrows(c) ==
  /\ stopPc = "running"
  /\ LET snaps == UNION {broadcast(w, createSnapshot(w), 0) : w \in TickWorlds}
     IN  /\ \E m \in snaps : m.to = c
         /\ \E before \in SUBSET {m \in snaps : m.to # c} :
              /\ stopBegins
              /\ Finish(before, Label("tick_failed", c, players[c].worldId,
                                      <<0, 0, 0>>))

NotAuthenticated(c) ==
  /\ sock' = SockAfterError(c, TRUE)
  /\ closeCode' = CloseCodeAfterError(c, TRUE)
  /\ UNCHANGED <<sectionKeys, jwksCache, ipConnections, verified, connections, players, tasks, worldOrder, activePlayers,
                 loadedSections, sectionSubscribers, pendingEdits, flushes,
                 persistenceTimer, stopPc, storeSections, storeSessions, now,
                 restarts, lastWritten, received, pendingConnections, storeWorlds>>
  /\ Finish(sendError(c, "AUTH_FAILED", TRUE),
            Label("not_authenticated", c, DefaultWorld, <<0, 0, 0>>))

\* Math.max(lo, Math.min(hi, v)).
Clamp(lo, hi, v) == IF v < lo THEN lo ELSE IF v > hi THEN hi ELSE v

\* GameServer.handleMessage case INPUT and MessageHandler.handleInput with
\* msg = [position: whole blocks].  updatePlayerPosition writes to the Player
\* stored in the world under the sender's id.
handleInput(c, msg) ==
  /\ sock[c] = "open"
  /\ IF connections[c] <= 0
     THEN NotAuthenticated(c)
     ELSE
       LET me == players[c]
           q == activePlayers[me.worldId][me.playerId]
           position == <<Clamp(0, 1023, msg.position[1]),
                         Clamp(0, 127, msg.position[2]),
                         Clamp(0, 1023, msg.position[3])>>
       IN  /\ players' = IF q = 0 THEN players
                         ELSE [players EXCEPT ![q].position = position]
           /\ UNCHANGED <<sectionKeys, jwksCache, ipConnections, verified, sock, connections, tasks, worldOrder, activePlayers,
                          loadedSections, sectionSubscribers, pendingEdits,
                          flushes, persistenceTimer, stopPc, storeSections,
                          storeSessions, now, restarts, lastWritten,
                          received, pendingConnections, closeCode,
                          storeWorlds>>
           /\ Finish({}, Label("input", c, me.worldId, <<0, 0, 0>>))

\* GameServer.handleMessage case SUBSCRIBE and MessageHandler.handleSubscribe
\* with msg = [section_ids: sequence, unsubscribe_ids: set].
handleSubscribe(c, msg) ==
  /\ CanReceive(c)
  /\ IF connections[c] <= 0 THEN NotAuthenticated(c)
     ELSE
       LET me == players[c]
           w == me.worldId
           u == me.playerId
           reset == now - me.lastSubscribeReset > 1000
           p0 == [players EXCEPT
                    ![c].subscribeCount = IF reset THEN 0 ELSE @,
                    ![c].lastSubscribeReset = IF reset THEN now ELSE @]
           un == msg.unsubscribe_ids \cap Sections
           st == SubscribeLoop(c, msg.section_ids, 1,
                   [players |-> Unsubscribed(p0, w, u, un),
                    index |-> UnsubscribedIndex(sectionSubscribers[w], u, un),
                    errors |-> {}])
       IN  /\ sectionSubscribers' = [sectionSubscribers EXCEPT ![w] = st.index]
           /\ sendPendingSections(c, 0, st.players, loadedSections[w], flushes,
                st.errors, Label("subscribe", c, w, <<0, 0, 0>>))

\* sendPendingSections resumes with the answer of loadSection: getSection
\* stores the section, SECTION_DATA is sent and the loop goes on.
sendPendingSectionsLoaded(c, i, res) ==
  /\ Suspended(c, i, "PEND", "load")
  /\ LET t == tasks[c][i]
         sec == loadSection(t.world, t.sid, res)
         secsW == [loadedSections[t.world] EXCEPT ![t.sid] = sec]
         n == Min(Len(players[c].pendingSections), t.left)
         r == SendLoop(t.world, n, SendState(players[c].pendingSections, secsW))
     IN  /\ res \in LoadAnswers(t.world, t.sid)
         /\ players' = [players EXCEPT ![c].pendingSections = r.pending]
         /\ loadedSections' = [loadedSections EXCEPT ![t.world] = r.secs]
         /\ flushes' = Orphaned(t.world, t.sid)
         /\ tasks' = [tasks EXCEPT ![c] =
              IF r.wait THEN Put(c, i, PendTask(t.world, r.sid, r.left))
              ELSE Drop(c, i)]
         /\ UNCHANGED <<sectionKeys, jwksCache, ipConnections, verified, sock, connections, worldOrder, activePlayers,
                        sectionSubscribers, pendingEdits, persistenceTimer,
                        stopPc, storeSections, storeSessions, now, restarts,
                        lastWritten, received, pendingConnections, closeCode, storeWorlds>>
         /\ Finish({[to |-> c, frame |-> f] : f \in
                      IF sock[c] = "open"
                      THEN {SectionData(t.sid, sec)} \cup r.frames ELSE {}},
                   Label("section_sent", c, t.world, t.sid))

(* ---------------------------------------------------- BLOCK_EDIT_REQUEST *)
\* MessageHandler.createBlockEventResponse: a rejection.
createBlockEventResponse(m, u, prev, reason) ==
  [type |-> "BLOCK_EVENT", request_id |-> m.request_id, player_id |-> u,
   x |-> m.x, y |-> m.y, z |-> m.z, block_id |-> m.block_id,
   previous_block_id |-> prev, section_version |-> 0, accepted |-> FALSE,
   reject_reason |-> reason]

AcceptedEvent(m, u, prev, version) ==
  [type |-> "BLOCK_EVENT", request_id |-> m.request_id, player_id |-> u,
   x |-> m.x, y |-> m.y, z |-> m.z, block_id |-> m.block_id,
   previous_block_id |-> prev, section_version |-> version, accepted |-> TRUE,
   reject_reason |-> ""]

\* WorldManager.cacheBlockEvent: store under the request id, then drop the
\* entries older than the TTL.
cacheBlockEvent(cache, req, response) ==
  LET c1 == [cache EXCEPT ![req] =
               [cached |-> TRUE, response |-> response, timestamp |-> now]]
  IN  [r \in CacheKeys |->
         IF c1[r].cached /\ c1[r].timestamp < now - REQUEST_ID_TTL_MS
         THEN NoResponse ELSE c1[r]]

\* WorldManager.applyBlockEdit on the section stored in the world.
applyBlockEdit(sec, m) ==
  [sec EXCEPT !.blocks[worldToBlockIndex(m.x, m.y, m.z)] = ToUint16(m.block_id),
              !.version = @ + 1,
              !.dirty = TRUE]

\* The player's box in whole blocks: Math.floor of position -/+ 0.3 and of
\* position.y + 1.8, computed in tenths.
InsideSelf(pos, m) ==
  /\ m.x >= (10 * pos[1] - 3) \div 10 /\ m.x <= (10 * pos[1] + 3) \div 10
  /\ m.y >= pos[2]                    /\ m.y <= (10 * pos[2] + 18) \div 10
  /\ m.z >= (10 * pos[3] - 3) \div 10 /\ m.z <= (10 * pos[3] + 3) \div 10

TooFar(pos, m) ==
  distanceSq(10 * pos[1], 10 * pos[2] + PLAYER_EYE_HEIGHT_T, 10 * pos[3],
             10 * m.x + 5, 10 * m.y + 5, 10 * m.z + 5)
    > MAX_REACH_DISTANCE_T * MAX_REACH_DISTANCE_T

\* The placement checks with the player's box tested before the target.
selfBeforeOccupied(cur, pos, m) ==
  IF m.block_id = BLOCK_AIR /\ cur = BLOCK_AIR THEN "Nothing to break"
  ELSE IF m.block_id # BLOCK_AIR /\ InsideSelf(pos, m)
    THEN "Cannot place inside self"
  ELSE IF m.block_id # BLOCK_AIR /\ cur # BLOCK_AIR THEN "Block occupied"
  ELSE ""

\* The reason for which the placement/destruction checks reject, or "".
RejectReason(cur, pos, m) ==
  IF m.block_id = BLOCK_AIR /\ cur = BLOCK_AIR THEN "Nothing to break"
  ELSE IF m.block_id # BLOCK_AIR /\ cur # BLOCK_AIR THEN "Block occupied"
  ELSE IF m.block_id # BLOCK_AIR /\ InsideSelf(pos, m)
    THEN "Cannot place inside self"
  ELSE ""

\* A rejection decided before the section is needed: cached and sent to the
\* originator only.
EditRejectEarly(c, pl, m, reason, dup) ==
  LET w == players[c].worldId
      resp == createBlockEventResponse(m, players[c].playerId, 0, reason)
  IN  /\ players' = pl
      /\ pendingEdits' = [pendingEdits EXCEPT ![w] =
           cacheBlockEvent(@, m.request_id, resp)]
      /\ UNCHANGED <<sectionKeys, jwksCache, ipConnections, verified, sock, connections, tasks, worldOrder, activePlayers,
                     loadedSections, sectionSubscribers, flushes,
                     persistenceTimer, stopPc, storeSections, storeSessions,
                     now, restarts, lastWritten, pendingConnections, closeCode, storeWorlds>>
      /\ Finish(send(c, resp),
                EditLabel("reject", c, w, <<0, 0, 0>>, dup))

\* handleBlockEdit from the return of getSection on: secsW are the world's
\* sections with the one of the edit loaded, fl the flushes in flight.
EditDecide(c, i, pl, m, secsW, fl, dup) ==
  LET w == players[c].worldId
      u == players[c].playerId
      sid == worldToSectionId(m.x, m.y, m.z)
      cur == secsW[sid].blocks[worldToBlockIndex(m.x, m.y, m.z)]
      reason == RejectReason(cur, pl[c].position, m)
      sec == applyBlockEdit(secsW[sid], m)
      resp == IF reason # "" THEN createBlockEventResponse(m, u, cur, reason)
              ELSE AcceptedEvent(m, u, cur, sec.version)
  IN  /\ players' = pl
      /\ tasks' = [tasks EXCEPT ![c] = Drop(c, i)]
      /\ flushes' = fl
      /\ loadedSections' = [loadedSections EXCEPT ![w] =
           IF reason # "" THEN secsW ELSE [secsW EXCEPT ![sid] = sec]]
      /\ pendingEdits' = [pendingEdits EXCEPT ![w] =
           cacheBlockEvent(@, m.request_id, resp)]
      /\ UNCHANGED <<sectionKeys, jwksCache, ipConnections, verified, sock, connections, worldOrder, activePlayers,
                     sectionSubscribers, persistenceTimer, stopPc,
                     storeSections, storeSessions, now, restarts, lastWritten, pendingConnections, closeCode, storeWorlds>>
      /\ IF reason # ""
         THEN Finish(send(c, resp), EditLabel("reject", c, w, sid, dup))
         ELSE Finish(broadcastToSection(w, sid, resp),
                     EditLabel("apply", c, w, sid, dup))

EditTask(w, m, dup) ==
  [kind |-> "EDIT", pc |-> "load", world |-> w, msg |-> m, dup |-> dup]

\* GameServer.handleMessage case BLOCK_EDIT_REQUEST and
\* MessageHandler.handleBlockEdit up to the load of the section, or to its
\* end when the section is cached or the world is default-world.
handleBlockEdit(c, m) ==
  /\ CanReceive(c)
  /\ IF connections[c] <= 0
     THEN NotAuthenticated(c)
     ELSE
       LET me == players[c]
           w == me.worldId
           dup == m.request_id \in received[w]
           reset == now - me.lastEditReset > 1000
           p0 == [players EXCEPT
                    ![c].editCount = IF reset THEN 0 ELSE @,
                    ![c].lastEditReset = IF reset THEN now ELSE @]
           p1 == [p0 EXCEPT ![c].editCount = @ + 1]
           sid == worldToSectionId(m.x, m.y, m.z)
       IN  /\ received' = [received EXCEPT ![w] = @ \cup {m.request_id}]
           /\ IF pendingEdits[w][m.request_id].cached
              THEN /\ UNCHANGED <<sectionKeys, jwksCache, ipConnections, verified, sock, connections, players, tasks,
                                  worldOrder, activePlayers, loadedSections,
                                  sectionSubscribers, pendingEdits, flushes,
                                  persistenceTimer, stopPc, storeSections,
                                  storeSessions, now, restarts, lastWritten, pendingConnections, closeCode, storeWorlds>>
                   /\ Finish(send(c, pendingEdits[w][m.request_id].response),
                             EditLabel("replay", c, w, sid, dup))
              ELSE IF p0[c].editCount >= MAX_EDITS_PER_SECOND
              THEN EditRejectEarly(c, p0, m, "Rate limited", dup)
              ELSE IF ~isValidWorldCoord(m.x, m.y, m.z)
              THEN EditRejectEarly(c, p1, m, "Out of bounds", dup)
              ELSE IF TooFar(me.position, m)
              THEN EditRejectEarly(c, p1, m, "Too far", dup)
              ELSE IF loadedSections[w][sid].loaded
              THEN EditDecide(c, 0, p1, m, loadedSections[w], flushes, dup)
              ELSE IF w = DefaultWorld
              THEN EditDecide(c, 0, p1, m,
                     [loadedSections[w] EXCEPT ![sid] = generateBaselineSection(sid)],
                     flushes, dup)
              ELSE /\ players' = p1
                   /\ tasks' = [tasks EXCEPT ![c] = Put(c, 0, EditTask(w, m, dup))]
                   /\ UNCHANGED <<sectionKeys, jwksCache, ipConnections, verified, sock, connections, worldOrder,
                                  activePlayers, loadedSections,
                                  sectionSubscribers, pendingEdits, flushes,
                                  persistenceTimer, stopPc, storeSections,
                                  storeSessions, now, restarts, lastWritten, pendingConnections, closeCode, storeWorlds>>
                   /\ Finish({}, EditLabel("edit_recv", c, w, sid, dup))

\* handleBlockEdit resumes with the answer of loadSection: getSection stores
\* the section and the edit is decided against it.
handleBlockEditLoaded(c, i, res) ==
  /\ Suspended(c, i, "EDIT", "load")
  /\ LET t == tasks[c][i]
         sid == worldToSectionId(t.msg.x, t.msg.y, t.msg.z)
     IN  /\ res \in LoadAnswers(t.world, sid)
         /\ UNCHANGED received
         /\ EditDecide(c, i, players, t.msg,
              [loadedSections[t.world] EXCEPT ![sid] = loadSection(t.world, sid, res)],
              Orphaned(t.world, sid), t.dup)

(* ------------------------------------------------------- specifications *)
Slots == 1..MaxInflight

Hello(u, w) ==
  [protocol_version |-> PROTOCOL_VERSION, registry_version |-> REGISTRY_VERSION,
   generator_version |-> GENERATOR_VERSION, valid |-> TRUE, sub |-> u,
   world_id |-> w]

\* HELLO frames that fail one of the checks made before any store call.
BadHellos ==
  {[Hello(1, "w1") EXCEPT !.protocol_version = 2],
   [Hello(1, "w1") EXCEPT !.registry_version = 2],
   [Hello(1, "w1") EXCEPT !.generator_version = 2],
   [Hello(1, "w1") EXCEPT !.valid = FALSE]}

\* HELLO frames with at least one version that is not the server's, with a
\* credential that verifies or not.
MismatchedHellos ==
  {[protocol_version |-> p, registry_version |-> r, generator_version |-> g,
    valid |-> v, sub |-> 1, world_id |-> "w1"] :
     p \in {PROTOCOL_VERSION, PROTOCOL_VERSION + 1},
     r \in {REGISTRY_VERSION, REGISTRY_VERSION + 1},
     g \in {GENERATOR_VERSION, GENERATOR_VERSION + 1},
     v \in BOOLEAN} \ {Hello(1, "w1"), [Hello(1, "w1") EXCEPT !.valid = FALSE]}

Subscribe(s) == [section_ids |-> <<s>>, unsubscribe_ids |-> {}]

Input(p) == [position |-> p]

\* A SUBSCRIBE for every section of the model, in one frame.
SubscribeMany ==
  [section_ids |-> <<<<32, 32, 5>>, <<32, 32, 4>>, <<32, 32, 3>>>>,
   unsubscribe_ids |-> {}]

Unsubscribe(s) == [section_ids |-> << >>, unsubscribe_ids |-> {s}]

Edit(r, t, b) ==
  [request_id |-> r, x |-> t[1], y |-> t[2], z |-> t[3], block_id |-> b]

\* Admission, subscription and disconnect in a stored world.
NextAdmit ==
  \/ \E c \in Conns : handleConnection(c)
  \/ \E c \in Conns : \E u \in {1, c} : handleHello(c, Hello(u, "w1"))
  \/ \E c \in Conns, m \in BadHellos : handleHello(c, m)
  \/ \E c \in Conns, i \in Slots,
        res \in {"public", "missing"} :
       HelloGetWorldDone(c, i, res)
  \/ \E c \in Conns, i \in Slots, res \in {"clear", "banned"} :
       HelloBanDone(c, i, res)
  \/ \E c \in Conns, i \in Slots : HelloNameDone(c, i)
  \/ \E c \in Conns, i \in Slots : HelloJoinDone(c, i)
  \/ \E c \in Conns, i \in Slots, ok \in BOOLEAN : HelloRegDone(c, i, ok)
  \/ \E c \in Conns : onClose(c)
  \/ \E c \in Conns : recordPlayerLeaveDone(c)

SpecAdmit == Init /\ [][NextAdmit]_vars

\* The voxel and the section that the edit specification works on.
EditTarget == <<514, 80, 512>>

EditSection == worldToSectionId(EditTarget[1], EditTarget[2], EditTarget[3])

EditConns == 1..2

\* Two connections in a stored world: admission (the second connection may
\* present the first one's user id), subscription, edits and disconnect.
NextEdit ==
  \/ \E c \in EditConns : handleConnection(c)
  \/ \E c \in EditConns : \E u \in {1, c} :
       tasks[c] = << >> /\ handleHello(c, Hello(u, "w1"))
  \/ \E c \in EditConns : HelloGetWorldDone(c, 1, "public")
  \/ \E c \in EditConns : HelloBanDone(c, 1, "clear")
  \/ \E c \in EditConns, i \in Slots : HelloNameDone(c, i)
  \/ \E c \in EditConns, i \in Slots : HelloJoinDone(c, i)
  \/ \E c \in EditConns, i \in Slots : HelloRegDone(c, i, TRUE)
  \/ \E c \in EditConns, m \in {Subscribe(EditSection), Unsubscribe(EditSection)} :
       /\ tasks[c] = << >>
       /\ players[c].subscribeCount < MaxSubscribes
       /\ handleSubscribe(c, m)
  \/ \E c \in EditConns, res \in {"none", "error"} :
       sendPendingSectionsLoaded(c, 1, res)
  \/ \E c \in EditConns, r \in RequestIds, b \in BlockIds :
       /\ tasks[c] = << >>
       /\ players[c].editCount < MaxEdits
       /\ handleBlockEdit(c, Edit(r, EditTarget, b))
  \/ \E c \in EditConns, res \in {"none", "error"} :
       handleBlockEditLoaded(c, 1, res)
  \/ \E c \in EditConns : onClose(c)
  \/ \E c \in EditConns : recordPlayerLeaveDone(c)

SpecEdit == Init /\ [][NextEdit]_vars

\* One connection that sends edit requests without waiting for the answers.
NextReplay ==
  \/ handleConnection(1)
  \/ tasks[1] = << >> /\ handleHello(1, Hello(1, "w1"))
  \/ HelloGetWorldDone(1, 1, "public")
  \/ HelloBanDone(1, 1, "clear")
  \/ HelloNameDone(1, 1)
  \/ HelloJoinDone(1, 1)
  \/ HelloRegDone(1, 1, TRUE)
  \/ \E m \in {Subscribe(EditSection), Unsubscribe(EditSection)} :
       /\ players[1].subscribeCount < MaxSubscribes
       /\ handleSubscribe(1, m)
  \/ \E i \in Slots, res \in {"none", "error"} : sendPendingSectionsLoaded(1, i, res)
  \/ \E r \in RequestIds, b \in BlockIds :
       /\ players[1].editCount < MaxEdits
       /\ handleBlockEdit(1, Edit(r, EditTarget, b))
  \/ \E i \in Slots, res \in {"none", "error"} : handleBlockEditLoaded(1, i, res)
  \/ onClose(1)
  \/ recordPlayerLeaveDone(1)

SpecReplay == Init /\ [][NextReplay]_vars

\* One connection, the persistence timer, the store's answers (failures
\* included) and a restart of the process.
NextPersist ==
  \/ handleConnection(1)
  \/ tasks[1] = << >> /\ handleHello(1, Hello(1, "w1"))
  \/ \E res \in {"public", "private", "private_owner", "missing", "error"} :
       HelloGetWorldDone(1, 1, res)
  \/ \E res \in {"clear", "banned", "error"} : HelloBanDone(1, 1, res)
  \/ \E res \in {"member", "nonmember", "error"} : HelloMemberDone(1, 1, res)
  \/ HelloNameDone(1, 1)
  \/ HelloJoinDone(1, 1)
  \/ \E ok \in BOOLEAN : HelloRegDone(1, 1, ok)
  \/ \E s \in Sections :
       /\ tasks[1] = << >>
       /\ players[1].subscribeCount < MaxSubscribes
       /\ handleSubscribe(1, Subscribe(s))
  \/ \E res \in {"row", "none", "error"} : sendPendingSectionsLoaded(1, 1, res)
  \/ \E r \in RequestIds, t \in Targets, b \in WideBlockIds :
       /\ tasks[1] = << >>
       /\ players[1].editCount < MaxEdits
       /\ handleBlockEdit(1, Edit(r, t, b))
  \/ \E res \in {"row", "none", "error"} : handleBlockEditLoaded(1, 1, res)
  \/ flushDirtySections
  \/ \E ok \in BOOLEAN : saveSectionsDone(ok)
  \/ onClose(1)
  \/ recordPlayerLeaveDone(1)
  \/ \E ok \in BOOLEAN : removePlayerFlushDone(1, ok)
  \/ Restart

SpecPersist == Init /\ [][NextPersist]_vars

\* The same with every enabled handler, store answer and timer eventually
\* running: the event loop starves nothing.  A restart of the process is
\* never bound to happen.
FairPersist == SpecPersist /\ WF_vars(NextPersist /\ restarts' = restarts)

StopConns == 1..2

\* Graceful shutdown with every store call succeeding.
NextStop ==
  \/ \E c \in StopConns : handleConnection(c)
  \/ \E c \in StopConns : tasks[c] = << >> /\ handleHello(c, Hello(c, "w1"))
  \/ \E c \in StopConns : HelloGetWorldDone(c, 1, "public")
  \/ \E c \in StopConns : HelloBanDone(c, 1, "clear")
  \/ \E c \in StopConns : HelloNameDone(c, 1)
  \/ \E c \in StopConns : HelloJoinDone(c, 1)
  \/ \E c \in StopConns : HelloRegDone(c, 1, TRUE)
  \/ \E c \in StopConns :
       /\ tasks[c] = << >>
       /\ players[c].editCount < 1
       /\ handleBlockEdit(c, Edit("r1", EditTarget, BLOCK_STONE))
  \/ \E c \in StopConns : handleBlockEditLoaded(c, 1, "none")
  \/ \E c \in StopConns : handleBlockEditLoaded(c, 1, "row")
  \/ flushDirtySections
  \/ saveSectionsDone(TRUE)
  \/ \E c \in StopConns : onClose(c)
  \/ \E c \in StopConns : recordPlayerLeaveDone(c)
  \/ \E c \in StopConns : removePlayerFlushDone(c, TRUE)
  \/ stop
  \/ stopFlushDone(TRUE)
  \/ cleanupStaleWorldSessionsDone(TRUE)

SpecStop == Init /\ [][NextStop]_vars

\* The handshake: accepted connections, their first frames (HELLO for
\* either world, HELLO repeated while one is in flight, malformed HELLOs,
\* frames other than HELLO), the answers of the store with transient
\* errors, and disconnects.
HandshakeConns == 1..2

\* Date.now() moves on by d ms.
elapse(d) ==
  /\ now + d <= MaxClock
  /\ now' = now + d
  /\ UNCHANGED <<sectionKeys, jwksCache, ipConnections, verified, sock, connections, players, tasks, worldOrder,
                 activePlayers, loadedSections, sectionSubscribers,
                 pendingEdits, flushes, persistenceTimer, stopPc,
                 storeSections, storeSessions, restarts, lastWritten,
                 received, pendingConnections, closeCode, storeWorlds>>
  /\ Finish({}, Label("time", 0, DefaultWorld, <<0, 0, 0>>))

\* Date.now() moves on by half the HELLO timeout.
passTime == elapse(HELLO_TIMEOUT_MS \div 2)

NextHandshake ==
  \/ \E c \in HandshakeConns : handleConnection(c)
  \/ \E c \in HandshakeConns, w \in WorldIds : handleHello(c, Hello(c, w))
  \/ \E w \in WorldIds : handleHelloAgain(1, Hello(1, w))
  \/ \E c \in HandshakeConns, m \in BadHellos \cup MismatchedHellos :
       handleHello(c, m)
  \/ \E c \in HandshakeConns :
       connections[c] <= 0 /\ handleInput(c, Input(getSpawnPosition))
  \/ \E c \in HandshakeConns :
       connections[c] <= 0 /\ handleSubscribe(c, Subscribe(EditSection))
  \/ \E c \in HandshakeConns :
       connections[c] <= 0
         /\ handleBlockEdit(c, Edit("r1", EditTarget, BLOCK_STONE))
  \/ \E c \in HandshakeConns, i \in Slots,
        res \in {"public", "missing", "error"} :
       HelloGetWorldDone(c, i, res)
  \/ \E c \in HandshakeConns, i \in Slots,
        res \in {"clear", "banned", "error"} :
       HelloBanDone(c, i, res)
  \/ \E c \in HandshakeConns, i \in Slots : HelloNameDone(c, i)
  \/ \E c \in HandshakeConns, i \in Slots : HelloJoinDone(c, i)
  \/ \E c \in HandshakeConns, i \in Slots, ok \in BOOLEAN :
       HelloRegDone(c, i, ok)
  \/ \E c \in HandshakeConns : onClose(c)
  \/ \E c \in HandshakeConns : recordPlayerLeaveDone(c)

SpecHandshake == Init /\ [][NextHandshake]_vars

\* The HELLO timer: connections accepted at different times, their first
\* frames one at a time, the passing of time and the timer.
NextTimer ==
  \/ \E c \in HandshakeConns : handleConnection(c)
  \/ \E c \in HandshakeConns, w \in WorldIds :
       tasks[c] = << >> /\ handleHello(c, Hello(c, w))
  \/ \E c \in HandshakeConns, m \in BadHellos : handleHello(c, m)
  \/ \E c \in HandshakeConns :
       connections[c] <= 0 /\ handleInput(c, Input(getSpawnPosition))
  \/ \E c \in HandshakeConns :
       connections[c] <= 0 /\ handleSubscribe(c, Subscribe(EditSection))
  \/ \E c \in HandshakeConns :
       connections[c] <= 0
         /\ handleBlockEdit(c, Edit("r1", EditTarget, BLOCK_STONE))
  \/ \E c \in HandshakeConns : helloTimeout(c)
  \/ passTime
  \/ \E c \in HandshakeConns, res \in {"public", "missing", "error"} :
       HelloGetWorldDone(c, 1, res)
  \/ \E c \in HandshakeConns, res \in {"clear", "banned", "error"} :
       HelloBanDone(c, 1, res)
  \/ \E c \in HandshakeConns : HelloNameDone(c, 1)
  \/ \E c \in HandshakeConns : HelloJoinDone(c, 1)
  \/ \E c \in HandshakeConns, ok \in BOOLEAN : HelloRegDone(c, 1, ok)
  \/ \E c \in HandshakeConns : onClose(c)
  \/ \E c \in HandshakeConns : recordPlayerLeaveDone(c)

SpecTimer == Init /\ [][NextTimer]_vars

\* What the server does by itself during a handshake: the HELLO timer
\* fires, time passes, the store answers, a closing socket closes.  Frames
\* are the client's choice and get no fairness.
TimerServerSteps ==
  \/ \E c \in HandshakeConns : helloTimeout(c)
  \/ passTime
  \/ \E c \in HandshakeConns, res \in {"public", "missing", "error"} :
       HelloGetWorldDone(c, 1, res)
  \/ \E c \in HandshakeConns, res \in {"clear", "banned", "error"} :
       HelloBanDone(c, 1, res)
  \/ \E c \in HandshakeConns : HelloNameDone(c, 1)
  \/ \E c \in HandshakeConns : HelloJoinDone(c, 1)
  \/ \E c \in HandshakeConns, ok \in BOOLEAN : HelloRegDone(c, 1, ok)
  \/ \E c \in HandshakeConns : recordPlayerLeaveDone(c)

\* The handshakes of connections that are accepted early enough for their
\* HELLO timer to come due within the clock of the model.
NextLive ==
  \/ \E c \in HandshakeConns :
       now + HELLO_TIMEOUT_MS <= MaxClock /\ handleConnection(c)
  \/ \E c \in HandshakeConns, w \in WorldIds :
       tasks[c] = << >> /\ handleHello(c, Hello(c, w))
  \/ \E c \in HandshakeConns, m \in BadHellos : handleHello(c, m)
  \/ \E c \in HandshakeConns :
       connections[c] <= 0 /\ handleInput(c, Input(getSpawnPosition))
  \/ \E c \in HandshakeConns : onClose(c)
  \/ TimerServerSteps

SpecLive == Init /\ [][NextLive]_vars

FairLive == SpecLive /\ WF_vars(TimerServerSteps)

\* Admission to a world whose rows in worlds, world_bans and world_members
\* are given: any combination of a missing, public or private world, owned
\* by user 1 or by somebody else, with user 1 and user 2 each unbanned,
\* banned for good, or banned until a time before or after the present, and
\* any of the two a member.
AccessUsers == 1..2

BanRows ==
  {NoBan,
   [present |-> TRUE, permanent |-> TRUE, expires_at |-> 0],
   [present |-> TRUE, permanent |-> FALSE, expires_at |-> 0 - 1],
   [present |-> TRUE, permanent |-> FALSE, expires_at |-> 1]}

AccessWorlds ==
  {NoWorld} \cup
  {[present |-> TRUE, is_public |-> pub, owner_id |-> own,
    bans |-> [u \in Users |-> IF u \in AccessUsers THEN b[u] ELSE NoBan],
    members |-> mem] :
     pub \in BOOLEAN, own \in {0, 1}, b \in [AccessUsers -> BanRows],
     mem \in SUBSET AccessUsers}

AccessStores ==
  {[w \in WorldIds |-> IF w = DefaultWorld THEN NoWorld ELSE row] :
     row \in AccessWorlds}

InitAccess == InitServer /\ storeWorlds \in AccessStores

NextAccess ==
  \/ \E c \in AccessUsers : handleConnection(c)
  \/ \E c \in AccessUsers : tasks[c] = << >> /\ handleHello(c, Hello(c, "w1"))
  \/ \E c \in AccessUsers : validateWorldAccessGotWorld(c, 1)
  \/ \E c \in AccessUsers : validateWorldAccessGotBan(c, 1)
  \/ \E c \in AccessUsers : validateWorldAccessGotMember(c, 1)
  \/ \E c \in AccessUsers : HelloNameDone(c, 1)
  \/ \E c \in AccessUsers : HelloJoinDone(c, 1)
  \/ \E c \in AccessUsers, ok \in BOOLEAN : HelloRegDone(c, 1, ok)
  \/ \E c \in AccessUsers : onClose(c)
  \/ \E c \in AccessUsers : recordPlayerLeaveDone(c)

SpecAccess == InitAccess /\ [][NextAccess]_vars

\* The tick: two connections in a stored world (the second may present the
\* first one's user id), SUBSCRIBE frames for three sections, movement, the
\* answers of the store to section loads, disconnects, and the tick timer.
NextTick ==
  \/ \E c \in EditConns : handleConnection(c)
  \/ \E c \in EditConns : \E u \in {1, c} :
       tasks[c] = << >> /\ handleHello(c, Hello(u, "w1"))
  \/ \E c \in EditConns : HelloGetWorldDone(c, 1, "public")
  \/ \E c \in EditConns : HelloBanDone(c, 1, "clear")
  \/ \E c \in EditConns : HelloNameDone(c, 1)
  \/ \E c \in EditConns : HelloJoinDone(c, 1)
  \/ \E c \in EditConns : HelloRegDone(c, 1, TRUE)
  \/ \E c \in EditConns :
       /\ connections[c] > 0
       /\ players[c].subscribeCount < MaxSubscribes
       /\ handleSubscribe(c, SubscribeMany)
  \/ \E c \in EditConns, i \in Slots, res \in {"none", "error"} :
       sendPendingSectionsLoaded(c, i, res)
  \/ \E c \in EditConns :
       connections[c] > 0 /\ handleInput(c, Input(<<513, 80, 1024>>))
  \/ tick
  \/ \E c \in EditConns : onClose(c)
  \/ \E c \in EditConns : recordPlayerLeaveDone(c)

SpecTick == Init /\ [][NextTick]_vars

\* Ticks of a world with up to two participants, with sends that throw.
NextTickFail ==
  \/ \E c \in EditConns : handleConnection(c)
  \/ \E c \in EditConns : tasks[c] = << >> /\ handleHello(c, Hello(c, "w1"))
  \/ \E c \in EditConns : HelloGetWorldDone(c, 1, "public")
  \/ \E c \in EditConns : HelloBanDone(c, 1, "clear")
  \/ \E c \in EditConns : HelloNameDone(c, 1)
  \/ \E c \in EditConns : HelloJoinDone(c, 1)
  \/ \E c \in EditConns : HelloRegDone(c, 1, TRUE)
  \/ \E c \in EditConns :
       connections[c] > 0 /\ handleInput(c, Input(<<513, 80, 1024>>))
  \/ tick
  \/ \E c \in EditConns : tickThrows(c)
  \/ cleanupStaleWorldSessionsDone(TRUE)
  \/ \E c \in EditConns : onClose(c)
  \/ \E c \in EditConns : recordPlayerLeaveDone(c)

SpecTickFail == Init /\ [][NextTickFail]_vars

\* A burst of edit requests of one participant of default-world, each with
\* a request id not used before, for a voxel outside the world or (the first
\* two) for the edit target, while the clock moves on twice by 600 ms.
BurstNext == Cardinality({r \in CacheKeys : pendingEdits[DefaultWorld][r].cached}) + 1

NextRate ==
  \/ handleConnection(1)
  \/ tasks[1] = << >> /\ handleHello(1, Hello(1, DefaultWorld))
  \/ HelloNameDone(1, 1)
  \/ HelloRegDone(1, 1, TRUE)
  \/ \E t \in {EditTarget, <<514, WORLD_SIZE_Y, 512>>} :
       /\ BurstNext <= Len(BurstRequestIds)
       /\ t = EditTarget => BurstNext <= 2
       /\ handleBlockEdit(1, Edit(BurstRequestIds[BurstNext], t, BLOCK_STONE))
  \/ now < 1200 /\ elapse(600)
  \/ onClose(1)

SpecRate == Init /\ [][NextRate]_vars

\* One participant of default-world that moves (to the edit target, far
\* away) and sends edit requests, each with a request id not used before,
\* for the two targets and for a voxel above the world.
OrderPositions == {EditTarget, <<513, 80, 1024>>}

NextOrder ==
  \/ handleConnection(1)
  \/ tasks[1] = << >> /\ handleHello(1, Hello(1, DefaultWorld))
  \/ HelloNameDone(1, 1)
  \/ HelloRegDone(1, 1, TRUE)
  \/ \E p \in OrderPositions : connections[1] > 0 /\ handleInput(1, Input(p))
  \/ \E t \in Targets \cup {<<514, WORLD_SIZE_Y, 512>>}, b \in BlockIds :
       /\ BurstNext <= MaxOrderEdits
       /\ handleBlockEdit(1, Edit(BurstRequestIds[BurstNext], t, b))
  \/ onClose(1)

SpecOrder == Init /\ [][NextOrder]_vars

(* ------------------------------------------------ section ids as text *)
\* A section id as a client sends it: a string, here a sequence of
\* characters.
Chars == {"1", ":", "x"}
MaxIdLen == 6
RawIds == UNION {[1..n -> Chars] : n \in 0..MaxIdLen}

DigitChars == <<"0", "1", "2", "3", "4", "5", "6", "7", "8", "9">>
IsDigit(ch) == \E i \in 1..10 : DigitChars[i] = ch
DigitValue(ch) == (CHOOSE i \in 1..10 : DigitChars[i] = ch) - 1

\* String.prototype.split(':'): the pieces between the colons.
RECURSIVE split(_)
split(str) ==
  IF \A i \in 1..Len(str) : str[i] # ":" THEN <<str>>
  ELSE LET k == CHOOSE i \in 1..Len(str) :
                  str[i] = ":" /\ \A j \in 1..(i - 1) : str[j] # ":"
       IN  <<SubSeq(str, 1, k - 1)>> \o split(SubSeq(str, k + 1, Len(str)))

\* The value of the digits of str from position i on, up to the first
\* character that is not a digit, continuing from acc.
RECURSIVE digitsValue(_, _, _)
digitsValue(str, i, acc) ==
  IF i > Len(str) \/ ~IsDigit(str[i]) THEN acc
  ELSE digitsValue(str, i + 1, 10 * acc + DigitValue(str[i]))

NaN == [nan |-> TRUE, value |-> 0]

\* parseInt(str, 10): white space is skipped, a sign is taken, then the
\* longest run of digits is read; what follows the digits is ignored.
\* Without a digit the result is NaN.
RECURSIVE parseInt(_)
parseInt(str) ==
  IF str = << >> THEN NaN
  ELSE IF str[1] = " " THEN parseInt(Tail(str))
  ELSE LET signed == str[1] \in {"+", "-"}
           first == IF signed THEN 2 ELSE 1
           v == digitsValue(str, first, 0)
       IN  IF first > Len(str) \/ ~IsDigit(str[first]) THEN NaN
           ELSE [nan |-> FALSE,
                 value |-> IF signed /\ str[1] = "-" THEN 0 - v ELSE v]

NoCoords == [ok |-> FALSE, cx |-> 0, cz |-> 0, sy |-> 0]

\* parseSectionId: null (NoCoords) or the coordinates.
parseSectionId(sectionId) ==
  LET parts == split(sectionId)
  IN  IF Len(parts) # 3 THEN NoCoords
      ELSE LET cx == parseInt(parts[1])
               cz == parseInt(parts[2])
               sy == parseInt(parts[3])
           IN  IF cx.nan \/ cz.nan \/ sy.nan THEN NoCoords
               ELSE IF ~isValidSectionCoord(cx.value, cz.value, sy.value)
                 THEN NoCoords
               ELSE [ok |-> TRUE, cx |-> cx.value, cz |-> cz.value,
                     sy |-> sy.value]

\* The decimal digits of a number that is not negative.
RECURSIVE NumberToString(_)
NumberToString(n) ==
  IF n < 10 THEN <<DigitChars[n + 1]>>
  ELSE NumberToString(n \div 10) \o <<DigitChars[(n % 10) + 1]>>

\* createSectionId: `${cx}:${cz}:${sy}`.
createSectionId(cx, cz, sy) ==
  NumberToString(cx) \o <<":">> \o NumberToString(cz) \o <<":">>
    \o NumberToString(sy)

\* The ids of RawIds that parseSectionId takes, and those it refuses.
TakenIds == {id \in RawIds : parseSectionId(id).ok}
RefusedIds == RawIds \ TakenIds

\* Keys that the maps of the model's world hold at most.
MaxKeys == 3

\* handleSubscribe of an admitted participant for one section id, as far as
\* the keys of the world's maps go: a refused id is answered with
\* INVALID_REQUEST; a taken id becomes, as the string received, a key of
\* sectionSubscribers and the argument of getSection, which returns the
\* section under that key or suspends at the store load.
subscribeRaw(id) ==
  /\ stopPc = "running"
  /\ sectionKeys.pending = << >>
  /\ Cardinality(sectionKeys.subscribers \cup sectionKeys.loaded \cup {id})
       <= MaxKeys
  /\ sectionKeys' =
       IF ~parseSectionId(id).ok THEN sectionKeys
       ELSE [sectionKeys EXCEPT
               !.subscribers = @ \cup {id},
               !.pending = IF id \in sectionKeys.loaded THEN << >> ELSE <<id>>]
  /\ UNCHANGED <<sock, connections, players, tasks, worldOrder,
                 activePlayers, loadedSections, sectionSubscribers,
                 pendingEdits, flushes, persistenceTimer, stopPc,
                 storeSections, storeSessions, now, restarts, lastWritten,
                 received, pendingConnections, closeCode, storeWorlds,
                 ipConnections, verified, jwksCache>>
  /\ Finish({}, Label("subscribe_raw", 0, "w1", <<0, 0, 0>>))

\* The store load of getSection answers: the section is set under the key
\* that getSection was called with.
getSectionRawDone ==
  /\ sectionKeys.pending # << >>
  /\ sectionKeys' = [sectionKeys EXCEPT
                       !.loaded = @ \cup {sectionKeys.pending[1]},
                       !.pending = << >>]
  /\ UNCHANGED <<sock, connections, players, tasks, worldOrder,
                 activePlayers, loadedSections, sectionSubscribers,
                 pendingEdits, flushes, persistenceTimer, stopPc,
                 storeSections, storeSessions, now, restarts, lastWritten,
                 received, pendingConnections, closeCode, storeWorlds,
                 ipConnections, verified, jwksCache>>
  /\ Finish({}, Label("section_loaded", 0, "w1", <<0, 0, 0>>))

\* unsubscribeFromSection for one id: the participant leaves the set under
\* that key and the key of an empty set is deleted.
unsubscribeRaw(id) ==
  /\ id \in sectionKeys.subscribers
  /\ sectionKeys' = [sectionKeys EXCEPT !.subscribers = @ \ {id}]
  /\ UNCHANGED <<sock, connections, players, tasks, worldOrder,
                 activePlayers, loadedSections, sectionSubscribers,
                 pendingEdits, flushes, persistenceTimer, stopPc,
                 storeSections, storeSessions, now, restarts, lastWritten,
                 received, pendingConnections, closeCode, storeWorlds,
                 ipConnections, verified, jwksCache>>
  /\ Finish({}, Label("unsubscribe_raw", 0, "w1", <<0, 0, 0>>))

NextKeys ==
  \/ \E id \in TakenIds : subscribeRaw(id)
  \/ \E id \in RefusedIds : subscribeRaw(id)
  \/ getSectionRawDone
  \/ \E id \in TakenIds : unsubscribeRaw(id)

SpecKeys == Init /\ [][NextKeys]_vars

(* ------------------------------------------------ signed credentials *)
\* A HELLO handler inside verifyJWT on a signed token: at the fetch of the
\* key set (pc "jwks") or at jose.jwtVerify (pc "verify").  `at` is the
\* `now` that getJWKS read when it was called, `retry` tells that the
\* handler is in the catch block of verifyJWT.
JwtTask(msg, pc, retry) ==
  [kind |-> "HELLO", pc |-> pc, world |-> msg.world_id, user |-> msg.sub,
   isPublic |-> TRUE, isOwner |-> FALSE, at |-> now, valid |-> msg.valid,
   retry |-> retry]

\* getJWKS up to its fetch: the position the handler takes, by the cache.
getJWKS ==
  IF jwksCache.jwks /\ (now - jwksCache.fetchedAt) < JWKS_CACHE_TTL_MS
  THEN "verify" ELSE "jwks"

\* handleHello with a token that is not a simple token, up to the first
\* await of verifyJWT.  msg.valid tells whether jose.jwtVerify will accept
\* the token.
handleHelloJWT(c, msg) ==
  /\ CanReceive(c)
  /\ \A i \in 1..Len(tasks[c]) : tasks[c][i].kind # "HELLO"
  /\ connections[c] <= 0
  /\ tasks' = [tasks EXCEPT ![c] = Put(c, 0, JwtTask(msg, getJWKS, FALSE))]
  /\ pendingConnections' = clearHelloTimeout(c)
  /\ UNCHANGED <<sock, connections, players, worldOrder, activePlayers,
                 loadedSections, sectionSubscribers, pendingEdits, flushes,
                 persistenceTimer, stopPc, storeSections, storeSessions, now,
                 restarts, lastWritten, received, closeCode, storeWorlds,
                 ipConnections, verified, jwksCache, sectionKeys>>
  /\ Finish({}, Label("hello_recv", c, msg.world_id, <<0, 0, 0>>))

\* The catch block of verifyJWT: with a key set in the cache (and not yet
\* in the catch block) the cache is emptied and the key set fetched again;
\* otherwise the HELLO fails.
verifyJWTCatch(c, i) ==
  LET t == tasks[c][i]
  IN  IF jwksCache.jwks /\ ~t.retry
      THEN /\ jwksCache' = [jwksCache EXCEPT !.jwks = FALSE]
           /\ tasks' = [tasks EXCEPT ![c][i] =
                [t EXCEPT !.pc = "jwks", !.at = now, !.retry = TRUE]]
           /\ UNCHANGED <<sock, connections, players, worldOrder,
                          activePlayers, loadedSections, sectionSubscribers,
                          pendingEdits, flushes, persistenceTimer, stopPc,
                          storeSections, storeSessions, now, restarts,
                          lastWritten, received, pendingConnections,
                          closeCode, storeWorlds, ipConnections, verified,
                          sectionKeys>>
           /\ Finish({}, Label("jwks_retry", c, t.world, <<0, 0, 0>>))
      ELSE HelloFail(c, i, t.world, "AUTH_FAILED", TRUE)

\* The fetch of the key set answers: the key set is put in the cache with
\* the time read before the fetch; a failed fetch throws.
getJWKSDone(c, i, ok) ==
  /\ Suspended(c, i, "HELLO", "jwks")
  /\ IF ok
     THEN /\ jwksCache' = [jwks |-> TRUE, fetchedAt |-> tasks[c][i].at]
          /\ tasks' = [tasks EXCEPT ![c][i].pc = "verify"]
          /\ UNCHANGED <<sock, connections, players, worldOrder,
                         activePlayers, loadedSections, sectionSubscribers,
                         pendingEdits, flushes, persistenceTimer, stopPc,
                         storeSections, storeSessions, now, restarts,
                         lastWritten, received, pendingConnections,
                         closeCode, storeWorlds, ipConnections, verified,
                          sectionKeys>>
          /\ Finish({}, Label("jwks", c, tasks[c][i].world, <<0, 0, 0>>))
     ELSE verifyJWTCatch(c, i)

\* jose.jwtVerify answers: an accepted token lets handleHello go on to the
\* world access checks, a refused one throws.
jwtVerifyDone(c, i) ==
  /\ Suspended(c, i, "HELLO", "verify")
  /\ LET t == tasks[c][i]
         h == HelloTask([world_id |-> t.world, sub |-> t.user])
     IN  IF ~t.valid THEN verifyJWTCatch(c, i)
         ELSE IF t.world = DefaultWorld THEN HelloAccessGranted(c, i, h)
         ELSE /\ tasks' = [tasks EXCEPT ![c][i] = h]
              /\ UNCHANGED <<sock, connections, players, worldOrder,
                             activePlayers, loadedSections,
                             sectionSubscribers, pendingEdits, flushes,
                             persistenceTimer, stopPc, storeSections,
                             storeSessions, now, restarts, lastWritten,
                             received, pendingConnections, closeCode,
                             storeWorlds, ipConnections, verified, jwksCache, sectionKeys>>
              /\ Finish({}, Label("hello_verified", c, t.world, <<0, 0, 0>>))

\* Date.now() moves on by the lifetime of the cached key set.
jwksLater ==
  /\ now + JWKS_CACHE_TTL_MS <= MaxJwksClock
  /\ now' = now + JWKS_CACHE_TTL_MS
  /\ UNCHANGED <<sock, connections, players, tasks, worldOrder,
                 activePlayers, loadedSections, sectionSubscribers,
                 pendingEdits, flushes, persistenceTimer, stopPc,
                 storeSections, storeSessions, restarts, lastWritten,
                 received, pendingConnections, closeCode, storeWorlds,
                 ipConnections, verified, jwksCache, sectionKeys>>
  /\ Finish({}, Label("time", 0, DefaultWorld, <<0, 0, 0>>))

\* Two connections that present signed tokens for default-world.
JwksConns == 1..2

NextJwks ==
  \/ \E c \in JwksConns : handleConnection(c)
  \/ \E c \in JwksConns, v \in BOOLEAN :
       handleHelloJWT(c, [Hello(c, DefaultWorld) EXCEPT !.valid = v])
  \/ \E c \in JwksConns, ok \in BOOLEAN : getJWKSDone(c, 1, ok)
  \/ \E c \in JwksConns : jwtVerifyDone(c, 1)
  \/ \E c \in JwksConns : HelloNameDone(c, 1)
  \/ \E c \in JwksConns : HelloRegDone(c, 1, TRUE)
  \/ jwksLater
  \/ \E c \in JwksConns : onClose(c)

SpecJwks == Init /\ [][NextJwks]_vars

(* ------------------------------------------------- connection rate gate *)
\* The gate without the filter: recorded times are never dropped.
keepExpired(ip) ==
  LET timestamps == Append(ipConnections[ip], now)
  IN  [timestamps |-> timestamps,
       ok |-> Len(timestamps) <= CONNECTION_RATE_LIMIT]

\* GameServer.checkConnectionRate: drops the times older than the window,
\* records this attempt, and passes it when at most CONNECTION_RATE_LIMIT
\* times are left.
checkConnectionRate(ip) ==
  LET kept == SelectSeq(ipConnections[ip], LAMBDA t : (now - t) < windowMs)
      timestamps == Append(kept, now)
  IN  [timestamps |-> timestamps,
       ok |-> Len(timestamps) <= CONNECTION_RATE_LIMIT]

\* verifyClient of the WebSocketServer: the origin is validated first, then
\* the rate of the source IP.
verifyClient(ip, originOk) ==
  /\ stopPc # "stopped"
  /\ Len(verified) < MaxAttempts
  /\ IF ~originOk
       THEN /\ UNCHANGED ipConnections
            /\ verified' = Append(verified,
                 [ip |-> ip, at |-> now, result |-> "forbidden"])
       ELSE LET r == checkConnectionRate(ip)
            IN  /\ ipConnections' = [ipConnections EXCEPT ![ip] = r.timestamps]
                /\ verified' = Append(verified,
                     [ip |-> ip, at |-> now,
                      result |-> IF r.ok THEN "accepted" ELSE "limited"])
  /\ UNCHANGED <<sock, connections, players, tasks, worldOrder,
                 activePlayers, loadedSections, sectionSubscribers,
                 pendingEdits, flushes, persistenceTimer, stopPc,
                 storeSections, storeSessions, now, restarts, lastWritten,
                 received, pendingConnections, closeCode, storeWorlds,
                 jwksCache, sectionKeys>>
  /\ Finish({}, Label("verify", 0, DefaultWorld, <<0, 0, 0>>))

\* Date.now() moves on by two thirds of the window between two attempts.
connectLater ==
  /\ now + (2 * windowMs) \div 3 <= MaxConnectClock
  /\ now' = now + (2 * windowMs) \div 3
  /\ UNCHANGED <<sock, connections, players, tasks, worldOrder,
                 activePlayers, loadedSections, sectionSubscribers,
                 pendingEdits, flushes, persistenceTimer, stopPc,
                 storeSections, storeSessions, restarts, lastWritten,
                 received, pendingConnections, closeCode, storeWorlds,
                 ipConnections, verified, jwksCache, sectionKeys>>
  /\ Finish({}, Label("time", 0, DefaultWorld, <<0, 0, 0>>))

NextConnect ==
  \/ \E ip \in IPs : verifyClient(ip, TRUE)
  \/ verifyClient("10.0.0.1", FALSE)
  \/ connectLater

SpecConnect == Init /\ [][NextConnect]_vars

\* Every action, with the widest inputs; the default specification.
Next ==
  NextAdmit \/ NextEdit \/ NextReplay \/ NextPersist \/ NextStop
    \/ NextHandshake \/ NextTimer \/ NextAccess \/ NextTick
    \/ NextRate
  \/ NextConnect
  \/ NextOrder
  \/ NextJwks
  \/ NextTickFail
  \/ NextKeys
  \/ NextLive

Spec == (InitServer /\ storeWorlds \in AccessStores \cup {OpenStore})
          /\ [][Next]_vars

(* ---------------------------------------------------------------- claims *)
\* C1: in every reachable state, HELLO handshakes in flight included, no
\* world's participant map holds more than MAX_PLAYERS_PER_WORLD entries.
C1_ParticipantsAtMostCap ==
  \A w \in WorldIds : PlayerCount(w) <= MAX_PLAYERS_PER_WORLD

\* C2: an edit request whose request id has been received before in the
\* world (the first one possibly still suspended at its section load) is
\* not applied a second time: no edit is accepted for it and it sends
\* frames to its own connection only.
C2_DuplicateIsReplayed ==
  [][last'.dup =>
       /\ last'.op # "apply"
       /\ \A m \in sent' : m.to = last'.c]_vars

\* C3: the in-memory version of a section never decreases, and an accepted
\* edit increases it by exactly 1, its BLOCK_EVENT carrying the new value.
C3_VersionMonotonic ==
  [][\A w \in WorldIds, s \in Sections :
       /\ loadedSections'[w][s].version >= loadedSections[w][s].version
       /\ (last'.op = "apply" /\ last'.w = w /\ last'.sid = s) =>
            /\ loadedSections'[w][s].version = loadedSections[w][s].version + 1
            /\ \A m \in sent' :
                 m.frame.section_version = loadedSections'[w][s].version]_vars

\* C4: the accepted edits of two different request ids to one section carry
\* distinct section versions, and two placements on the same voxel are not
\* both accepted as placements on air.
C4_EditsSerialized ==
  \A w \in WorldIds :
    LET a == pendingEdits[w]["r1"].response
        b == pendingEdits[w]["r2"].response
    IN  (/\ pendingEdits[w]["r1"].cached /\ pendingEdits[w]["r2"].cached
         /\ a.accepted /\ b.accepted
         /\ worldToSectionId(a.x, a.y, a.z) = worldToSectionId(b.x, b.y, b.z))
        => /\ a.section_version # b.section_version
           /\ ~(/\ <<a.x, a.y, a.z>> = <<b.x, b.y, b.z>>
                /\ a.block_id # BLOCK_AIR /\ b.block_id # BLOCK_AIR
                /\ a.previous_block_id = BLOCK_AIR
                /\ b.previous_block_id = BLOCK_AIR)

\* C5: in a world other than default-world, a loaded section that is not
\* dirty and has version >= 1 holds exactly the (version, blocks) last
\* upserted successfully.
C5_CleanMeansStored ==
  \A w \in WorldIds \ {DefaultWorld}, s \in Sections :
    LET sec == loadedSections[w][s]
    IN  (sec.loaded /\ ~sec.dirty /\ sec.version >= 1) =>
          /\ lastWritten[w][s].written
          /\ lastWritten[w][s].version = sec.version
          /\ lastWritten[w][s].blocks = sec.blocks

\* C6: user id u is in the subscription index of section s of world w if and
\* only if u is a participant of w whose subscribed set holds s.
C6_IndexAgreesWithSubscribed ==
  \A w \in WorldIds, u \in Users, s \in Sections :
    (u \in sectionSubscribers[w][s]) <=>
      (/\ activePlayers[w][u] # 0
       /\ s \in players[activePlayers[w][u]].subscribedSections)

\* C7: the copy of section s that a client has built from SECTION_DATA and
\* the BLOCK_EVENTs received since, while its participant stays subscribed
\* over an open connection, equals the server's section.
C7_SubscriberConverged ==
  \A c \in Conns, s \in Sections :
    view[c][s].has =>
      /\ view[c][s].version = loadedSections[players[c].worldId][s].version
      /\ view[c][s].blocks = loadedSections[players[c].worldId][s].blocks

\* C8: the BLOCK_EVENT of an accepted edit goes to exactly the open
\* connections of the participants that the subscription index lists for
\* the edited section when the edit is applied; the BLOCK_EVENT of a
\* rejected edit goes to the originating connection and to no other.
C8_EventRecipients ==
  [][/\ last'.op = "apply" =>
          /\ {m.to : m \in sent'} =
               {q \in Conns :
                  /\ sock[q] = "open"
                  /\ \E u \in sectionSubscribers[last'.w][last'.sid] :
                       activePlayers[last'.w][u] = q}
          /\ \A m \in sent' : m.frame.type = "BLOCK_EVENT" /\ m.frame.accepted
     /\ last'.op = "reject" =>
          /\ {m.to : m \in sent'} =
               IF sock[last'.c] = "open" THEN {last'.c} ELSE {}
          /\ \A m \in sent' : m.frame.type = "BLOCK_EVENT" /\ ~m.frame.accepted]_vars

\* C8 witness: an accepted edit whose event went to a connection other than
\* the originator's while an open participant of the world was left out.
C8_Witness ==
  /\ last.op = "apply"
  /\ \E m \in sent : m.to # last.c
  /\ \E q \in getPlayersInWorld(last.w) :
       sock[q] = "open" /\ q \notin {m.to : m \in sent}

\* C9: once stop() has returned, every connection is closed and no handler
\* or flush is in flight, no loaded section is dirty and every session row that this instance
\* registered is offline.
C9_CleanAfterStop ==
  (/\ stopPc = "stopped"
   /\ \A c \in Conns : sock[c] \in {"none", "closed"} /\ tasks[c] = << >>
   /\ \A o \in FlushOwners : ~flushes[o].active)
  => /\ \A w \in WorldIds, s \in Sections :
          ~(loadedSections[w][s].loaded /\ loadedSections[w][s].dirty)
     /\ \A w \in WorldIds :
          (storeSessions[w].status # "none" /\ storeSessions[w].instance = restarts)
            => storeSessions[w].status = "offline"

\* C10: in a world other than default-world, a section that a successful
\* flush has written is loaded from its stored row with the version and the
\* blocks last written, marked as coming from the store and not dirty.
C10_ReloadReturnsLastWritten ==
  \A w \in WorldIds \ {DefaultWorld}, s \in Sections :
    lastWritten[w][s].written =>
      /\ storeSections[w][s].present
      /\ loadSection(w, s, "row") =
           [loaded |-> TRUE, version |-> lastWritten[w][s].version,
            blocks |-> lastWritten[w][s].blocks, dirty |-> FALSE,
            fromDatabase |-> TRUE]

\* C10 witness: after a restart, a section holding a two-byte block id is in
\* memory as loaded from the store, equal to what was last written.
C10_Witness ==
  /\ restarts = 1
  /\ \E s \in Sections :
       /\ loadedSections["w1"][s].loaded
       /\ loadedSections["w1"][s].fromDatabase
       /\ ~loadedSections["w1"][s].dirty
       /\ lastWritten["w1"][s].written
       /\ loadedSections["w1"][s].version = lastWritten["w1"][s].version
       /\ loadedSections["w1"][s].blocks = lastWritten["w1"][s].blocks
       /\ \E i \in Cells : loadedSections["w1"][s].blocks[i] = 300

\* C11: every open connection that holds a participant has the participant's
\* world in the world registry, and that world's participant map maps the
\* participant's id to this very participant.
C11_AdmittedIsParticipant ==
  \A c \in Conns :
    (connections[c] > 0 /\ sock[c] = "open") =>
      /\ players[c].worldId \in SeqToSet(worldOrder)
      /\ activePlayers[players[c].worldId][players[c].playerId] = c

\* C12: once a connection is closed and no handler of it is in flight, the
\* connection table does not contain it and no world's participant map
\* holds a participant whose connection it is.
C12_ClosedIsReleased ==
  \A c \in Conns :
    (sock[c] = "closed" /\ tasks[c] = << >>) =>
      /\ connections[c] = 0
      /\ \A w \in WorldIds, u \in Users : activePlayers[w][u] # c

\* C13: when the connection of an admitted participant closes, PLAYER_LEAVE
\* goes to the other open participants of its world and not to the leaver,
\* the participant's id leaves the world's participant map and every set of
\* the subscription index, and for a world other than default-world the
\* disconnect handling goes on to recordPlayerLeave.
C13_DisconnectCleansUp ==
  [][\A c \in Conns :
       (last'.op \in {"leave", "close"} /\ last'.c = c /\ connections[c] > 0) =>
         LET w == players[c].worldId
             u == players[c].playerId
         IN  /\ \A m \in sent' : m.frame.type = "PLAYER_LEAVE" /\ m.to # c
             /\ \A q \in getPlayersInWorld(w) :
                  (players[q].playerId # u /\ sock[q] = "open") =>
                    \E m \in sent' : m.to = q
             /\ activePlayers'[w][u] = 0
             /\ \A s \in Sections : u \notin sectionSubscribers'[w][s]
             /\ w # DefaultWorld =>
                  \E i \in 1..Len(tasks'[c]) :
                    tasks'[c][i].kind = "CLOSE" /\ tasks'[c][i].pc = "leave"]_vars

\* C14: at most one handler of inbound frames of a connection is in flight:
\* a frame is not taken up while the handler of an earlier frame of the
\* same connection is suspended at a store call.
C14_OneHandlerPerConnection ==
  \A c \in Conns :
    Cardinality({i \in 1..Len(tasks[c]) : tasks[c][i].kind # "CLOSE"}) <= 1

\* C15: over a connection that already holds a participant no WELCOME is
\* sent and no PLAYER_JOIN is broadcast for it: a connection is admitted at
\* most once, whenever its further HELLOs arrive.
C15_AdmittedAtMostOnce ==
  [][\A c \in Conns :
       (connections[c] > 0 /\ last'.c = c /\ last' # last) =>
         \A m \in sent' : m.frame.type \notin {"WELCOME", "PLAYER_JOIN"}]_vars

TimerWorldState ==
  <<worldOrder, activePlayers, loadedSections, sectionSubscribers,
    pendingEdits, players, connections, storeSections, storeSessions>>

HelloTasks(ts) == {i \in 1..Len(ts) : ts[i].kind = "HELLO"}

\* C16: the HELLO timer of a connection fires no earlier than
\* HELLO_TIMEOUT_MS after the connection was accepted and only while it is
\* armed; when it fires on an open connection the connection is sent a fatal
\* ERROR AUTH_FAILED and closed.  A frame other than HELLO over a connection
\* without a participant is answered with a fatal AUTH_FAILED and a close,
\* and leaves the world state as it was.  Every step that receives a HELLO
\* disarms the timer, and only accepting a connection arms it, so that after
\* a HELLO the timer never closes the connection.
C16_HelloTimer ==
  [][\A c \in Conns :
       /\ (last'.op = "hello_timeout" /\ last'.c = c) =>
            /\ pendingConnections[c] > 0
            /\ now >= pendingConnections[c]
            /\ pendingConnections[c] >= HELLO_TIMEOUT_MS
            /\ HelloTasks(tasks[c]) = {}
            /\ connections[c] <= 0
            /\ sock'[c] # "open"
            /\ sock[c] = "open" =>
                 /\ sent' = {[to |-> c,
                              frame |-> ErrorFrame("AUTH_FAILED", TRUE)]}
                 /\ closeCode'[c] = CLOSE_NORMAL
       /\ (last'.op = "not_authenticated" /\ last'.c = c) =>
            /\ sent' = {[to |-> c, frame |-> ErrorFrame("AUTH_FAILED", TRUE)]}
            /\ sock'[c] # "open"
            /\ closeCode'[c] = CLOSE_NORMAL
            /\ TimerWorldState' = TimerWorldState
       /\ (\/ HelloTasks(tasks'[c]) \ HelloTasks(tasks[c]) # {}
           \/ last'.op \in {"hello_error", "world_full"} /\ last'.c = c) =>
            pendingConnections'[c] = 0
       /\ (pendingConnections[c] = 0 /\ pendingConnections'[c] > 0) =>
            (sock[c] = "none" /\ sock'[c] = "open")]_vars

\* The timer of a connection that sent nothing has fired at its due time
\* and closed the connection with code 1000.
C16_Witness ==
  \E c \in Conns :
    /\ last.op = "hello_timeout" /\ last.c = c
    /\ now >= HELLO_TIMEOUT_MS
    /\ sock[c] = "closing"
    /\ closeCode[c] = CLOSE_NORMAL
    /\ sent = {[to |-> c, frame |-> ErrorFrame("AUTH_FAILED", TRUE)]}

\* C17: when a HELLO handler that was suspended at a store call of the
\* access check ends with an ERROR frame, the frame is fatal and the
\* connection is no longer open; a transient store error is such an end.
C17_StoreErrorIsFatal ==
  [][\A c \in Conns :
       (/\ last'.op = "hello_error" /\ last'.c = c
        /\ Len(tasks'[c]) < Len(tasks[c])) =>
         /\ \A m \in sent' : m.frame.type = "ERROR" /\ m.frame.fatal
         /\ sock'[c] # "open"]_vars

\* The error code of a HELLO whose versions disagree with the server's: the
\* first field that differs decides.
MismatchCode(msg) ==
  IF msg.protocol_version # PROTOCOL_VERSION THEN "INVALID_REQUEST"
  ELSE IF msg.registry_version # REGISTRY_VERSION THEN "REGISTRY_MISMATCH"
  ELSE "GENERATOR_MISMATCH"

UnexpiredBan(row) == row.present /\ (row.permanent \/ row.expires_at >= now)

\* The world has a row, the user has no unexpired ban, and the world is
\* public or the user is its owner or a member.
MayEnter(w, u) ==
  LET row == storeWorlds[w]
  IN  /\ row.present
      /\ ~UnexpiredBan(row.bans[u])
      /\ row.is_public \/ row.owner_id = u \/ u \in row.members

\* The code with which a HELLO of a user that may not enter fails.
DenialCode(w, u) ==
  IF storeWorlds[w].present THEN "PERMISSION_DENIED" ELSE "WORLD_NOT_FOUND"

\* C19: for a world other than default-world, a participant is stored and a
\* HELLO handler gets past the access check only for a user that may enter
\* (the world has a row, the user has no unexpired ban, the world is public
\* or the user is owner or member), and the in-memory world exists only if
\* somebody may enter; a HELLO of a user that may not enter ends with one
\* fatal ERROR, WORLD_NOT_FOUND for a missing row and PERMISSION_DENIED
\* otherwise, closes the connection, and leaves participants and registry
\* unchanged.
C19_AccessChecked ==
  [][\A c \in Conns :
       /\ \A w \in WorldIds \ {DefaultWorld}, u \in Users :
            /\ activePlayers'[w][u] # 0 => MayEnter(w, u)
            /\ w \in SeqToSet(worldOrder') => \E v \in Users : MayEnter(w, v)
       /\ \A i \in 1..Len(tasks'[c]) :
            (/\ tasks'[c][i].kind = "HELLO"
             /\ tasks'[c][i].world # DefaultWorld
             /\ tasks'[c][i].pc \in {"name", "join", "reg"}) =>
              MayEnter(tasks'[c][i].world, tasks'[c][i].user)
       /\ \A i \in 1..Len(tasks[c]) :
            (/\ Suspended(c, i, "HELLO", tasks[c][i].pc)
             /\ tasks[c][i].pc \in {"getWorld", "ban", "member"}
             /\ ~MayEnter(tasks[c][i].world, tasks[c][i].user)
             /\ sock[c] = "open"
             /\ tasks'[c] # tasks[c]
             /\ HelloTasks(tasks'[c]) = {}) =>
              /\ sent' = {[to |-> c,
                           frame |-> [type |-> "ERROR", fatal |-> TRUE,
                                      code |-> DenialCode(tasks[c][i].world,
                                                          tasks[c][i].user)]]}
              /\ sock'[c] = "closing"
              /\ activePlayers' = activePlayers
              /\ players' = players
              /\ connections' = connections
              /\ worldOrder' = worldOrder]_vars

\* A user with an expired ban has been admitted to a private world of which
\* it is a member, while the other user, banned for good, was refused.
C19_Witness ==
  \E c \in Conns, d \in Conns :
    /\ connections[c] > 0
    /\ players[c].worldId = "w1"
    /\ ~storeWorlds["w1"].is_public
    /\ storeWorlds["w1"].owner_id # players[c].playerId
    /\ storeWorlds["w1"].bans[players[c].playerId].present
    /\ last.op = "hello_error" /\ last.c = d
    /\ sent = {[to |-> d, frame |-> ErrorFrame("PERMISSION_DENIED", TRUE)]}
    /\ storeWorlds["w1"].bans[d].permanent

\* C20: no handler of a HELLO for default-world waits for the store: not for
\* a world lookup, a ban or membership check, the display-name lookup, the
\* presence record or the session registration.
C20_DefaultWorldBypassesStore ==
  \A c \in Conns : \A i \in 1..Len(tasks[c]) :
    ~(/\ tasks[c][i].kind = "HELLO"
      /\ tasks[c][i].world = DefaultWorld
      /\ tasks[c][i].pc \in {"getWorld", "ban", "member", "name", "join",
                              "reg"})

\* C21: the baseline flag of every SECTION_DATA frame is true exactly when
\* the frame carries version 0, the unmodified generator baseline.
C21_BaselineFlag ==
  \A m \in sent :
    m.frame.type = "SECTION_DATA" =>
      (m.frame.is_baseline <=> m.frame.version = 0)

\* C22: in a tick, every connection that holds a participant of a world
\* with at least one stored participant and whose socket is open is sent
\* exactly one SNAPSHOT, which lists every participant stored in that world.
C22_SnapshotToEveryone ==
  [][last'.op = "tick" =>
       \A c \in Conns :
         (/\ connections[c] > 0
          /\ sock[c] = "open"
          /\ PlayerCount(players[c].worldId) > 0) =>
           LET snaps == {m \in sent' : m.to = c /\ m.frame.type = "SNAPSHOT"}
           IN  /\ Cardinality(snaps) = 1
               /\ \A m \in snaps :
                    {q.player_id : q \in m.frame.players} =
                      {u \in Users : activePlayers[players[c].worldId][u] # 0}]_vars

\* The cached responses to requests of user u in world w that passed the
\* rate gate during the last second.
PassedLastSecond(w, u) ==
  {r \in CacheKeys :
     /\ pendingEdits[w][r].cached
     /\ pendingEdits[w][r].response.player_id = u
     /\ pendingEdits[w][r].response.reject_reason # "Rate limited"
     /\ now - pendingEdits[w][r].timestamp < 1000}

\* C23: of the edit requests of one participant, at most
\* MAX_EDITS_PER_SECOND have passed the rate gate within the last second.
C23_EditRate ==
  \A c \in Conns :
    connections[c] > 0 =>
      Cardinality(PassedLastSecond(players[c].worldId, players[c].playerId))
        <= MAX_EDITS_PER_SECOND

\* C24: the subscribed set of a participant never holds more than
\* MAX_SECTIONS_MOBILE sections.
C24_SubscriptionCap ==
  \A c \in Conns :
    players[c].exists =>
      Cardinality(players[c].subscribedSections) <= MAX_SECTIONS_MOBILE

\* Sections per second over ticks per second, rounded up.
SectionsPerStep ==
  LET ticksPerSecond == 1000 \div TICK_RATE_MS
  IN  (SECTIONS_PER_SECOND_MOBILE + ticksPerSecond - 1) \div ticksPerSecond

\* C25: one step of the server (a tick, a SUBSCRIBE or a resumed delivery)
\* sends to one connection no more SECTION_DATA frames than sections per
\* second over ticks per second, rounded up: one with the defaults.
C25_PacedDelivery ==
  \A c \in Conns :
    Cardinality({m \in sent : m.to = c /\ m.frame.type = "SECTION_DATA"})
      <= SectionsPerStep

\* The attempts of the IP of attempt i that reached the rate gate before it,
\* less than the window ago, with one of the given outcomes.
Preceding(i, outcomes) ==
  {j \in 1..(i - 1) :
     /\ verified[j].ip = verified[i].ip
     /\ verified[j].result \in outcomes
     /\ verified[i].at - verified[j].at < windowMs}

\* C26 (as stated): an attempt passes the gate exactly when fewer than
\* three connections of its IP were accepted in the preceding 60 seconds.
C26_PassIffFewAccepted ==
  \A i \in 1..Len(verified) :
    verified[i].result # "forbidden" =>
      (verified[i].result = "accepted"
         <=> Cardinality(Preceding(i, {"accepted"})) < CONNECTION_RATE_LIMIT)

\* C26 (amended): an attempt passes the gate exactly when fewer than three
\* attempts of its IP, accepted or rate limited, reached the gate in the
\* preceding 60 seconds; and no 60-second window holds more than three
\* accepted connections of one IP.
C26_ConnectionRate ==
  \A i \in 1..Len(verified) :
    verified[i].result # "forbidden" =>
      /\ verified[i].result = "accepted"
           <=> Cardinality(Preceding(i, {"accepted", "limited"}))
                 < CONNECTION_RATE_LIMIT
      /\ verified[i].result = "accepted"
           => Cardinality(Preceding(i, {"accepted"})) < CONNECTION_RATE_LIMIT

\* An attempt was refused although fewer than three connections of its IP
\* had been accepted in the preceding 60 seconds, and a later one passed.
C26_Witness ==
  \E i, k \in 1..Len(verified) :
    /\ i < k
    /\ verified[k].ip = verified[i].ip
    /\ verified[i].result = "limited"
    /\ Cardinality(Preceding(i, {"accepted"})) < CONNECTION_RATE_LIMIT
    /\ verified[k].result = "accepted"

\* C27: once stop() has begun, no step accepts a connection and no step
\* admits a participant.
C27_NothingNewAfterStopBegins ==
  [][stopPc # "running" =>
       \A c \in Conns :
         /\ ~(sock[c] = "none" /\ sock'[c] = "open")
         /\ ~(connections[c] <= 0 /\ connections'[c] > 0)]_vars

\* C28: when a batched upsert of a flush has failed, every section of its
\* batch is dirty (and so belongs to the batch of the next flush cycle), and
\* the step has left the version and the blocks of the section as they
\* were, has written nothing to the store and has closed no connection.
C28_FailedFlushRetried ==
  [][last'.op = "flush_failed" =>
       LET f == flushes[last'.c]
       IN  /\ \A s \in f.batch :
                /\ loadedSections'[f.world][s].dirty
                /\ loadedSections'[f.world][s].version
                     = loadedSections[f.world][s].version
                /\ loadedSections'[f.world][s].blocks
                     = loadedSections[f.world][s].blocks
           /\ storeSections' = storeSections
           /\ sock' = sock]_vars

\* A participant of world w has left, removePlayer has returned, and the
\* world is in the registry with no participant, no dirty section, and no
\* handler or flush in flight.
LeftEmptyAndClean(w) ==
  /\ w \in SeqToSet(worldOrder)
  /\ PlayerCount(w) = 0
  /\ DirtyIn(w) = {}
  /\ \A c \in Conns : tasks[c] = << >>
  /\ \A o \in FlushOwners : ~flushes[o].active
  /\ \E c \in Conns :
       /\ players[c].exists /\ players[c].worldId = w
       /\ sock[c] = "closed" /\ connections[c] = 0

\* C29: a stored world that its last participant has left, with all its
\* dirty sections flushed, is eventually no longer in the registry.
C29_WorldEvicted ==
  \A w \in WorldIds \ {DefaultWorld} :
    LeftEmptyAndClean(w) ~> (w \notin SeqToSet(worldOrder))

\* The first check that fails for the request with the fields of response
\* e, in the order bounds, reach, nothing to break, occupied, inside self,
\* for a player at pos and the block prev at the target; "" when none fails.
FirstFailing(e, pos, prev) ==
  IF ~isValidWorldCoord(e.x, e.y, e.z) THEN "Out of bounds"
  ELSE IF TooFar(pos, e) THEN "Too far"
  ELSE IF e.block_id = BLOCK_AIR /\ prev = BLOCK_AIR THEN "Nothing to break"
  ELSE IF e.block_id # BLOCK_AIR /\ prev # BLOCK_AIR THEN "Block occupied"
  ELSE IF e.block_id # BLOCK_AIR /\ InsideSelf(pos, e)
    THEN "Cannot place inside self"
  ELSE ""

\* The block at the target of response e in default-world before the step.
BlockBefore(e) ==
  LET sid == worldToSectionId(e.x, e.y, e.z)
      sec == IF loadedSections[DefaultWorld][sid].loaded
             THEN loadedSections[DefaultWorld][sid]
             ELSE generateBaselineSection(sid)
  IN  sec.blocks[worldToBlockIndex(e.x, e.y, e.z)]

\* The responses that this step has put in the cache of default-world for
\* requests that passed the rate gate.
Decided ==
  {pendingEdits'[DefaultWorld][r].response : r \in
     {q \in CacheKeys :
        /\ ~pendingEdits[DefaultWorld][q].cached
        /\ pendingEdits'[DefaultWorld][q].cached
        /\ pendingEdits'[DefaultWorld][q].response.reject_reason
             # "Rate limited"}}

C31_EditEffect ==
  [][/\ last'.op \in {"reject", "replay"} =>
          \A w \in WorldIds, s \in Sections :
            loadedSections[w][s].loaded =>
              /\ loadedSections'[w][s].blocks = loadedSections[w][s].blocks
              /\ loadedSections'[w][s].version = loadedSections[w][s].version
              /\ loadedSections'[w][s].dirty = loadedSections[w][s].dirty
     /\ last'.op = "apply" =>
          /\ \A w \in WorldIds, s \in Sections :
               (w # last'.w \/ s # last'.sid) =>
                 loadedSections'[w][s] = loadedSections[w][s]
          /\ loadedSections[last'.w][last'.sid].loaded =>
               LET old == loadedSections[last'.w][last'.sid]
                   new == loadedSections'[last'.w][last'.sid]
               IN  /\ Cardinality({i \in Cells : new.blocks[i] # old.blocks[i]}) = 1
                   /\ new.version = old.version + 1
                   /\ new.dirty]_vars

\* The HELLO handlers that are waiting for a fetch of the key set.
Fetching ==
  {<<c, i>> \in Conns \X (1..MaxInflight) :
     i <= Len(tasks[c]) /\ tasks[c][i].kind = "HELLO" /\ tasks[c][i].pc = "jwks"}

\* C32: at most one fetch of the key set is in flight at any time.
C32_OneFetchInFlight == Cardinality(Fetching) <= 1

\* C33: a tick in which the send to one connection fails still sends the
\* SNAPSHOT to every other open connection a tick serves, and the server
\* keeps running (no shutdown is begun, later ticks stay possible).
C33_TickSurvivesSendFailure ==
  [][last'.op = "tick_failed" =>
       /\ stopPc' = "running"
       /\ \A w \in TickWorlds :
            \A m \in broadcast(w, createSnapshot(w), 0) :
              m.to # last'.c => m \in sent']_vars

\* The keys that the section maps of the world hold.
HeldKeys == sectionKeys.subscribers \cup sectionKeys.loaded

\* C34: only exactly formatted ids are taken, so every key held is the
\* formatted form of its coordinates, and no two keys of the loaded
\* sections or of the subscription index denote the same (cx, cz, sy).
C34_StrictSectionIds ==
  /\ \A id \in HeldKeys :
       LET p == parseSectionId(id)
       IN  p.ok /\ createSectionId(p.cx, p.cz, p.sy) = id
  /\ \A a, b \in sectionKeys.loaded :
       parseSectionId(a) = parseSectionId(b) => a = b
  /\ \A a, b \in sectionKeys.subscribers :
       parseSectionId(a) = parseSectionId(b) => a = b

\* C35: every accepted connection is eventually admitted (it holds a
\* player) or closed (its socket is no longer open).
C35_AdmittedOrClosed ==
  \A c \in HandshakeConns :
    (sock[c] = "open" /\ connections[c] = -1)
      ~> (connections[c] > 0 \/ sock[c] # "open")

\* C36: WELCOME is the first frame of an admitted connection: a SNAPSHOT,
\* PLAYER_JOIN, PLAYER_LEAVE or BLOCK_EVENT is sent only to a connection
\* that has had its WELCOME, which is sent in the step that puts the
\* Player into GameServer.connections.
C36_WelcomeFirst ==
  [][\A m \in sent' :
       m.frame.type \in {"SNAPSHOT", "PLAYER_JOIN", "PLAYER_LEAVE",
                         "BLOCK_EVENT"}
         => connections[m.to] > 0]_vars

\* C37: a BLOCK_EDIT_REQUEST that the server decides (applied, rejected or
\* replayed from the cache) is answered, in the step that decides it, with
\* a BLOCK_EVENT to the originator whose connection is open, whether or not
\* the originator is subscribed to the edited section.
C37_OriginatorAnswered ==
  [][(last'.op \in {"apply", "reject", "replay"}
        /\ sock[last'.c] = "open" /\ sock'[last'.c] = "open")
       => \E m \in sent' : m.to = last'.c /\ m.frame.type = "BLOCK_EVENT"]_vars

\* C38: a SECTION_DATA for section s is sent to a participant only while s
\* is in its subscribed set: none after an unsubscribe unless the
\* participant has subscribed to s again.
C38_DataOnlyWhileSubscribed ==
  [][\A m \in sent' :
       m.frame.type = "SECTION_DATA"
         => m.frame.section_id \in players'[m.to].subscribedSections]_vars

\* C39: for every world and section the stored version never decreases
\* from one successful upsert to the next, and every upserted record has a
\* version of at least 1.
C39_StoredVersionMonotone ==
  [][\A w \in WorldIds, s \in Sections :
       storeSections'[w][s] # storeSections[w][s] =>
         /\ storeSections'[w][s].version >= 1
         /\ storeSections'[w][s].version >= storeSections[w][s].version]_vars
====
